---- MODULE Spec2Model ----
(***************************************************************************)
(* Control plane of the EdgeDB server (edb/server/server.py): the system   *)
(* connection arbitrator, the management-listener restart and the          *)
(* registry of configured protocol listeners.                              *)
(*                                                                         *)
(* Coroutines are modelled at await granularity: one action is the code a  *)
(* coroutine runs between two suspension points.                           *)
(***************************************************************************)
EXTENDS Integers, Sequences, FiniteSets, TLC

(***************************************************************************)
(* Bounds                                                                  *)
(***************************************************************************)
\* Background tasks / callers that use the system connection after init().
MaxTasks == 4
\* CONFIGURE INSTANCE commands whose before-hooks run (each in the
\* coroutine of the session that issued it); they may overlap.
MaxCalls == 2
\* Times one statement tree is handed to the compiler.
MaxCompiles == 2

\* defines.EDGEDB_PORT, the port listen_port is reset to (line 559).
EDGEDB_PORT == 5656

(***************************************************************************)
(* Task identities of the arbitrator part                                  *)
(***************************************************************************)
\* The coroutine running Server.init().
InitTask == 0
\* Tasks created after init(), numbered in creation order.
Tasks == 1..MaxTasks
\* The coroutine running Server.stop().
StopTask == MaxTasks + 1
AllTasks == InitTask..StopTask

\* The brackets Server.init() runs one after the other (lines 169-176).
InitOps == <<"_load_instance_data", "_fetch_roles",
             "introspect_global_schema", "_introspect_dbs">>
\* The brackets run by tasks created after init().
TaskOps == {"_fetch_roles", "introspect_global_schema", "_signal_sysevent"}

\* self._roles = immutables.Map() (line 153): no fetch has built the table.
NoRoles == -1
\* Databases a remote DDL notification may name.
DbNames == {"d1", "d2"}
\* A task that is not an introspect_db task.
NoIntro == [db |-> "none", snap |-> 0]

VARIABLES
    \* ---- system connection arbitrator ----
    sys_pgcon,          \* Server.__sys_pgcon: "None" or "conn"
    sys_pgcon_waiters,  \* Server._sys_pgcon_waiters: "None" or "queue"
    waitq,              \* the asyncio.Queue object: [items, getters]
    ready,              \* the event loop's FIFO of runnable coroutines
    tpc,                \* where each task is
    top,                \* the bracket each task runs
    tres,               \* result of the awaited query of a holder
    initStep,           \* index into InitOps of Server.init()
    initState,          \* "constructed", "running", "done", "failed"
    acqSeq,             \* history: tasks in the order they called acquire
    waited,             \* history: tasks that suspended in acquire
    granted,            \* history: tasks in the order they got the handle
    \* ---- listeners ----
    portState,          \* state of each listener object
    portBind,           \* what each listener object was constructed for
    mgmt_port,          \* Server._mgmt_port: a listener id, 0 for None
    mgmt_host_addr,     \* Server._mgmt_host_addr
    mgmt_port_no,       \* Server._mgmt_port_no
    sys_conf_ports,     \* Server._sys_conf_ports: portconf -> listener id, 0 absent
    startState,         \* progress of Server.start()
    bringLeft,          \* configured ports start() has still to bring up
    sess,               \* the coroutine of each caller (hook call or start())
    portlog,            \* last message logged by _start_portconf / _stop_portconf
    sys_auth,           \* Server._sys_auth: the cached auth entries, by priority
    \* ---- state refreshed by the notification handlers' tasks ----
    roles,              \* Server._roles: the task whose fetch built the table
    schema_db,          \* backend: the version of each database's schema
    dbindex,            \* Server._dbindex: the cached version per database
    intro,              \* each introspect_db task: its database, what it read
    \* ---- the CONFIGURE statement compiler ----
    cstmt,              \* the qlast tree of the statement (changed in place)
    ccat,               \* the catalog snapshot it is compiled against
    cres,               \* what the last compilation returned or raised
    ccount,             \* how many times the tree was compiled
    \* ---- authentication of a connecting user ----
    auth_reply          \* what the last call of get_auth_method returned

ntfVars == <<roles, schema_db, dbindex, intro>>

cmpVars == <<cstmt, ccat, cres, ccount>>

\* What the actions of the listener part leave alone.
arbVars == <<sys_pgcon, sys_pgcon_waiters, waitq, ready, tpc, top, tres,
             initStep, initState, acqSeq, waited, granted, ntfVars, cmpVars,
             auth_reply>>

\* What the actions of the arbitrator part leave alone.
lsnVars == <<portState, portBind, mgmt_port, mgmt_host_addr, mgmt_port_no,
             sys_conf_ports, startState, bringLeft, sess, portlog, sys_auth,
             cmpVars, auth_reply>>

\* The state of the server, which the compiler does not touch.
srvVars == <<sys_pgcon, sys_pgcon_waiters, waitq, ready, tpc, top, tres,
             initStep, initState, acqSeq, waited, granted, ntfVars,
             portState, portBind, mgmt_port, mgmt_host_addr, mgmt_port_no,
             sys_conf_ports, startState, bringLeft, sess, portlog, sys_auth,
             auth_reply>>

vars == <<sys_pgcon, sys_pgcon_waiters, waitq, ready, tpc, top, tres,
          initStep, initState, acqSeq, waited, granted,
          portState, portBind, mgmt_port, mgmt_host_addr, mgmt_port_no,
          sys_conf_ports, startState, bringLeft, sess, portlog, sys_auth,
          roles, schema_db, dbindex, intro, cstmt, ccat, cres, ccount,
          auth_reply>>

(***************************************************************************)
(* Values of the listener part                                             *)
(***************************************************************************)
Hosts == {"localhost", "0.0.0.0"}
PortNos == {EDGEDB_PORT, 10702}

\* Protocol configurations (the keys of _sys_conf_ports), one per protocol
\* name; "bogus" is a protocol _start_portconf does not know.
PortConfs == {"graphql+http", "edgeql+http", "bogus"}
KnownProtocols == {"graphql+http", "edgeql+http", "notebook"}

\* Hook calls, numbered in the order they are made.
Calls == 1..MaxCalls
\* The coroutine running Server.start().
StartCaller == 0
Callers == StartCaller..MaxCalls
\* Listener objects: the management port of init(), and at most one per
\* hook call and per configured port.
PortIds == 1..(1 + MaxCalls + Cardinality(PortConfs))

NoBind == [kind |-> "none", host |-> "none", port |-> 0, conf |-> "none"]
MgmtBind(h, p) == [kind |-> "mgmt", host |-> h, port |-> p, conf |-> "none"]
ConfBind(k) == [kind |-> "conf", host |-> "none", port |-> 0, conf |-> k]

\* A logging call of _start_portconf / _stop_portconf: the message, the
\* portconf it is about, and the caller whose call logged it.
NoLog == [msg |-> "none", conf |-> "none", by |-> 0]
Logged(msg, portconf, c) == [msg |-> msg, conf |-> portconf, by |-> c]

\* Setting names a hook may be called with; "query_work_mem" stands for
\* every setting the server has no hook code for.
SettingNames == {"ports", "listen_addresses", "listen_port", "auth",
                 "query_work_mem"}

\* Auth configuration objects.
AuthEntries == {[priority |-> 0, user |-> {"*"}, method |-> "Trust"],
                [priority |-> 1, user |-> {"alice"}, method |-> "SCRAM"]}

\* The same with a second entry of priority 1.
AuthObjects ==
    AuthEntries \cup {[priority |-> 1, user |-> {"bob"}, method |-> "Trust"]}

\* sorted(auth, key=lambda a: a.priority): the configuration holds the
\* entries as a set, so entries of equal priority come in the order the
\* set happens to be iterated in.
RECURSIVE SortedByPriority(_)
SortedByPriority(auth) ==
    IF auth = {} THEN <<>>
    ELSE LET a == CHOOSE x \in auth : \A y \in auth : x.priority <= y.priority
         IN <<a>> \o SortedByPriority(auth \ {a})

\* _populate_sys_auth, lines 213-216, when the configuration holds auth.
PopulateSysAuth_Reversed(auth) ==
    LET sorted == SortedByPriority(auth)
    IN [i \in 1..Len(sorted) |-> sorted[Len(sorted) + 1 - i]]

PopulateSysAuth(auth) == SortedByPriority(auth)

\* Users that connect; no auth object names "carol".
Users == {"alice", "bob", "carol"}

NoReply == [user |-> "none", method |-> "none"]

\* get_auth_method, lines 686-688: the test of one entry.
AuthMatch_Exact(auth, user) == user \in auth.user

AuthMatch(auth, user) == user \in auth.user \/ "*" \in auth.user

\* The loop of lines 685-691: the method of the first entry that matches;
\* when the loop ends without a match the function returns None.
RECURSIVE FirstMatch(_, _)
FirstMatch(authlist, user) ==
    IF authlist = <<>> THEN "None"
    ELSE IF AuthMatch(Head(authlist), user) THEN Head(authlist).method
    ELSE FirstMatch(Tail(authlist), user)

\* get_auth_method, lines 679-691: an empty list gives a new object of the
\* default method's type.
GetAuthMethod(authlist, user) ==
    IF authlist = <<>> THEN "SCRAM" ELSE FirstMatch(authlist, user)

IdleSess == [pc |-> "idle", nethost |-> "none", netport |-> 0, orig |-> 0,
             newp |-> 0, target |-> 0, conf |-> "none", suppress |-> FALSE,
             err |-> "none", rollback |-> "none", raised |-> "none"]

(***************************************************************************)
(* asyncio.Queue, as used by _acquire_sys_pgcon / _release_sys_pgcon       *)
(***************************************************************************)
\* Queue.get() run by task t up to its first suspension: while the queue is
\* empty a getter future is appended and awaited; otherwise get_nowait().
QueueGet_NoDequeue(q, t) ==
    IF q.items = <<>>
    THEN [q |-> [q EXCEPT !.getters = Append(@, t)], got |-> FALSE]
    ELSE [q |-> q, got |-> TRUE]

QueueGet(q, t) ==
    IF q.items = <<>>
    THEN [q |-> [q EXCEPT !.getters = Append(@, t)], got |-> FALSE]
    ELSE [q |-> [q EXCEPT !.items = Tail(@)], got |-> TRUE]

\* Queue.put_nowait(x): the item is stored and the first pending getter
\* future is resolved (its task is scheduled, it does not run yet).
QueuePutNowait(q, x) ==
    [q |-> [items |-> Append(q.items, x),
            getters |-> IF q.getters = <<>> THEN <<>> ELSE Tail(q.getters)],
     woken |-> IF q.getters = <<>> THEN {} ELSE {Head(q.getters)}]

\* Tasks that currently own the handle (between a completed acquire and
\* the release in their finally clause).
Holders == {t \in AllTasks : tpc[t] \in {"holding", "iodone"}}

SeqToSet(s) == {s[i] : i \in 1..Len(s)}

\* pc of the tasks in w becomes "woken"; they are appended to the ready
\* queue (w has at most one element).
Wake(pcs, w) == [t \in AllTasks |-> IF t \in w THEN "woken" ELSE pcs[t]]
Enqueue(rq, w) == IF w = {} THEN rq ELSE Append(rq, CHOOSE t \in w : TRUE)

(***************************************************************************)
(* Initial state: the Server object after __init__ (lines 88-155).         *)
(***************************************************************************)
InitArb ==
    /\ sys_pgcon = "None"
    /\ sys_pgcon_waiters = "None"
    /\ waitq = [items |-> <<>>, getters |-> <<>>]
    /\ ready = <<>>
    /\ tpc = [t \in AllTasks |-> "idle"]
    /\ top = [t \in AllTasks |-> "none"]
    /\ tres = [t \in AllTasks |-> "none"]
    /\ initStep = 0
    /\ initState = "constructed"
    /\ acqSeq = <<>>
    /\ waited = {}
    /\ granted = <<>>
    /\ roles = NoRoles
    /\ schema_db = [d \in DbNames |-> 0]
    /\ dbindex = [d \in DbNames |-> 0]
    /\ intro = [t \in Tasks |-> NoIntro]

\* The server is constructed without nethost / netport and nothing is
\* configured, so that init() falls back on 'localhost' and
\* defines.EDGEDB_PORT (lines 196-202); the fallback is folded into the
\* initial state.
InitLsn ==
    /\ portState = [p \in PortIds |-> "Unalloc"]
    /\ portBind = [p \in PortIds |-> NoBind]
    /\ mgmt_port = 0
    /\ mgmt_host_addr = "localhost"
    /\ mgmt_port_no = EDGEDB_PORT
    /\ sys_conf_ports = [k \in PortConfs |-> 0]
    /\ startState = "not_started"
    /\ bringLeft = {}
    /\ sess = [c \in Callers |-> IdleSess]
    /\ portlog = NoLog
    /\ sys_auth = <<>>
    /\ auth_reply = NoReply

(***************************************************************************)
(* Server.init(), lines 163-169: the connection is made, the queue is      *)
(* created holding the one handle, and _load_instance_data acquires it.    *)
(***************************************************************************)
ServerInit ==
    /\ initState = "constructed"
    /\ LET q0 == QueuePutNowait([items |-> <<>>, getters |-> <<>>], "conn").q
           g  == QueueGet(q0, InitTask)
       IN /\ waitq' = g.q
          /\ tpc' = [tpc EXCEPT ![InitTask] =
                        IF g.got THEN "holding" ELSE "waiting"]
    /\ sys_pgcon' = "conn"
    /\ sys_pgcon_waiters' = "queue"
    /\ initState' = "running"
    /\ initStep' = 1
    /\ top' = [top EXCEPT ![InitTask] = InitOps[1]]
    /\ UNCHANGED <<ready, tres, acqSeq, waited, granted>>
    /\ UNCHANGED lsnVars
    /\ UNCHANGED ntfVars

(***************************************************************************)
(* The query awaited by a holder completes (or fails): the holder becomes  *)
(* runnable.                                                               *)
(***************************************************************************)
IOComplete(t, res) ==
    /\ tpc[t] = "holding"
    /\ tpc' = [tpc EXCEPT ![t] = "iodone"]
    /\ tres' = [tres EXCEPT ![t] = res]
    /\ ready' = Append(ready, t)
    /\ UNCHANGED <<sys_pgcon, sys_pgcon_waiters, waitq, top, initStep,
                   initState, acqSeq, waited, granted>>
    /\ UNCHANGED lsnVars
    /\ UNCHANGED ntfVars

(***************************************************************************)
(* A task that will use the system connection is created: by              *)
(* loop.create_task in _on_role_change / _on_global_schema_change          *)
(* (lines 611-615), or a session about to call _signal_sysevent.           *)
(* Notifications are delivered once init() has run set_server (line 180).  *)
(***************************************************************************)
Spawn(t, op) ==
    /\ initState = "done"
    /\ sys_pgcon # "None"
    /\ tpc[t] = "idle"
    /\ \A u \in Tasks : u < t => tpc[u] # "idle"
    /\ tpc' = [tpc EXCEPT ![t] = "start"]
    /\ top' = [top EXCEPT ![t] = op]
    /\ ready' = Append(ready, t)
    /\ UNCHANGED <<sys_pgcon, sys_pgcon_waiters, waitq, tres, initStep,
                   initState, acqSeq, waited, granted>>
    /\ UNCHANGED lsnVars
    /\ UNCHANGED ntfVars

(***************************************************************************)
(* The notification handlers, lines 594-615.  Each is a plain function     *)
(* that hands a coroutine to loop.create_task and returns.                 *)
(***************************************************************************)
\* _on_role_change, lines 611-612.
on_role_change(t) == Spawn(t, "_fetch_roles")

\* _on_global_schema_change, lines 614-615: _reintrospect_global_schema
\* runs the bracket of introspect_global_schema.
on_global_schema_change(t) == Spawn(t, "introspect_global_schema")

\* _on_remote_ddl, lines 594-599: the task runs introspect_db(dbname,
\* refresh=True).  The notification follows a schema change of dbname in
\* the backend; the change is numbered by the task it gives rise to.  The
\* task never uses the queue of the system connection, so its place in
\* the event loop's FIFO is left out.
on_remote_ddl(t, dbname) ==
    /\ initState = "done"
    /\ sys_pgcon # "None"
    /\ tpc[t] = "idle"
    /\ \A u \in Tasks : u < t => tpc[u] # "idle"
    /\ tpc' = [tpc EXCEPT ![t] = "db_start"]
    /\ top' = [top EXCEPT ![t] = "introspect_db"]
    /\ intro' = [intro EXCEPT ![t] = [db |-> dbname, snap |-> 0]]
    /\ schema_db' = [schema_db EXCEPT ![dbname] = t]
    /\ UNCHANGED <<sys_pgcon, sys_pgcon_waiters, waitq, ready, tres, initStep,
                   initState, acqSeq, waited, granted, roles, dbindex>>
    /\ UNCHANGED lsnVars

\* introspect_db, lines 267-270: a connection to the database is taken
\* from the pool (acquire_pgcon, lines 224-225) and the query of
\* introspect_user_schema reads the schema as it is then; a failure
\* leaves through the finally clause, which gives the connection back.
introspect_db_reads(t, ok) ==
    /\ tpc[t] = "db_start"
    /\ tpc' = [tpc EXCEPT ![t] = IF ok THEN "db_read" ELSE "raised"]
    /\ intro' = [intro EXCEPT ![t].snap =
                    IF ok THEN schema_db[intro[t].db] ELSE @]
    /\ top' = [top EXCEPT ![t] = IF ok THEN @ ELSE "none"]
    /\ UNCHANGED <<sys_pgcon, sys_pgcon_waiters, waitq, ready, tres, initStep,
                   initState, acqSeq, waited, granted, roles, schema_db,
                   dbindex>>
    /\ UNCHANGED lsnVars

\* DatabaseIndex.register_db(dbname, user_schema, ..., refresh=True), as
\* called on lines 314-316: the entry of dbname is refreshed in place with
\* the schema handed in.  The call carries nothing that orders one
\* snapshot against another.
RegisterDb(index, dbname, snap) == [index EXCEPT ![dbname] = snap]

\* introspect_db, lines 272-318: the two further queries complete; the
\* schema read is registered in the index (register_db, refresh=True) and
\* the connection goes back to the pool.  A failing query skips the
\* registration.
introspect_db_registers(t, ok) ==
    /\ tpc[t] = "db_read"
    /\ tpc' = [tpc EXCEPT ![t] = IF ok THEN "done" ELSE "raised"]
    /\ dbindex' = IF ok THEN RegisterDb(dbindex, intro[t].db, intro[t].snap)
                  ELSE dbindex
    /\ top' = [top EXCEPT ![t] = "none"]
    /\ UNCHANGED <<sys_pgcon, sys_pgcon_waiters, waitq, ready, tres, initStep,
                   initState, acqSeq, waited, granted, roles, schema_db,
                   intro>>
    /\ UNCHANGED lsnVars

(***************************************************************************)
(* Server.stop(), lines 660-674: every listener is stopped, the registry   *)
(* is cleared, _mgmt_port is dropped, and the finally clause begins to     *)
(* acquire the system connection.                                          *)
(***************************************************************************)
StopCall ==
    /\ initState = "done"
    /\ tpc[StopTask] = "idle"
    /\ tpc' = [tpc EXCEPT ![StopTask] = "start"]
    /\ top' = [top EXCEPT ![StopTask] = "stop"]
    /\ ready' = Append(ready, StopTask)
    /\ portState' = [p \in PortIds |->
                        IF portState[p] \in {"Running", "Failed"}
                        THEN "Stopped" ELSE portState[p]]
    /\ sys_conf_ports' = [k \in PortConfs |-> 0]
    /\ mgmt_port' = 0
    /\ startState' = "stopped"
    /\ UNCHANGED <<sys_pgcon, sys_pgcon_waiters, waitq, tres, initStep,
                   initState, acqSeq, waited, granted>>
    /\ UNCHANGED <<portBind, mgmt_host_addr, mgmt_port_no, bringLeft, sess,
                   portlog, sys_auth>>
    /\ UNCHANGED ntfVars
    /\ UNCHANGED cmpVars
    /\ UNCHANGED auth_reply

(***************************************************************************)
(* What a task does once Queue.get() has handed it the handle.  stop()     *)
(* (lines 675-677) tears the connection down without releasing; every      *)
(* other caller awaits its query.                                          *)
(***************************************************************************)
Granted(t) ==
    /\ granted' = Append(granted, t)
    /\ IF t = StopTask
       THEN /\ sys_pgcon_waiters' = "None"
            /\ sys_pgcon' = "None"
            /\ tpc' = [tpc EXCEPT ![t] = "done"]
       ELSE /\ tpc' = [tpc EXCEPT ![t] = "holding"]
            /\ UNCHANGED <<sys_pgcon, sys_pgcon_waiters>>

(***************************************************************************)
(* _acquire_sys_pgcon, lines 579-582, up to its first suspension.          *)
(***************************************************************************)
\* The test of line 580.
WaitersIsNone_Never == FALSE

WaitersIsNone == sys_pgcon_waiters = "None"

AcquireSysPgcon(t) ==
    /\ ready # <<>> /\ Head(ready) = t
    /\ tpc[t] = "start"
    /\ ready' = Tail(ready)
    /\ acqSeq' = Append(acqSeq, t)
    /\ IF WaitersIsNone
       THEN \* RuntimeError('invalid request to acquire a system pgcon')
            /\ tpc' = [tpc EXCEPT ![t] = "raised"]
            /\ UNCHANGED <<sys_pgcon, sys_pgcon_waiters, waitq, waited,
                           granted>>
       ELSE LET g == QueueGet(waitq, t)
            IN /\ waitq' = g.q
               /\ IF g.got
                  THEN /\ Granted(t)
                       /\ UNCHANGED waited
                  ELSE /\ tpc' = [tpc EXCEPT ![t] = "waiting"]
                       /\ waited' = waited \cup {t}
                       /\ UNCHANGED <<sys_pgcon, sys_pgcon_waiters, granted>>
    /\ UNCHANGED <<top, tres, initStep, initState>>
    /\ UNCHANGED lsnVars
    /\ UNCHANGED ntfVars

(***************************************************************************)
(* A waiter whose getter future was resolved runs again inside             *)
(* Queue.get(): it re-tests the queue and, when another task took the      *)
(* item meanwhile, waits again behind the current getters.                 *)
(***************************************************************************)
GetResume(t) ==
    /\ ready # <<>> /\ Head(ready) = t
    /\ tpc[t] = "woken"
    /\ ready' = Tail(ready)
    /\ LET g == QueueGet(waitq, t)
       IN /\ waitq' = g.q
          /\ IF g.got
             THEN Granted(t)
             ELSE /\ tpc' = [tpc EXCEPT ![t] = "waiting"]
                  /\ UNCHANGED <<sys_pgcon, sys_pgcon_waiters, granted>>
    /\ UNCHANGED <<top, tres, initStep, initState, acqSeq, waited>>
    /\ UNCHANGED lsnVars
    /\ UNCHANGED ntfVars

(***************************************************************************)
(* A task suspended in _acquire_sys_pgcon is cancelled (its session        *)
(* disconnects while its _signal_sysevent waits for the handle).           *)
(***************************************************************************)
Remove(seq, t) == SelectSeq(seq, LAMBDA u : u # t)

\* The getter future of t is pending: cancelling the task cancels the
\* future, which put_nowait then skips; the CancelledError leaves
\* Queue.get() and _acquire_sys_pgcon (line 582), which is outside the
\* try of the bracket.
CancelWaiting(t) ==
    /\ tpc[t] = "waiting"
    /\ top[t] = "_signal_sysevent"
    /\ waitq' = [waitq EXCEPT !.getters = Remove(@, t)]
    /\ tpc' = [tpc EXCEPT ![t] = "cancelled"]
    /\ top' = [top EXCEPT ![t] = "none"]
    /\ UNCHANGED <<sys_pgcon, sys_pgcon_waiters, ready, tres, initStep,
                   initState, acqSeq, waited, granted>>
    /\ UNCHANGED lsnVars
    /\ UNCHANGED ntfVars

\* The getter future of t was already resolved by a release: the task is
\* marked to be cancelled when it runs next.
CancelWoken(t) ==
    /\ tpc[t] = "woken"
    /\ top[t] = "_signal_sysevent"
    /\ tpc' = [tpc EXCEPT ![t] = "woken_cancel"]
    /\ UNCHANGED <<sys_pgcon, sys_pgcon_waiters, waitq, ready, top, tres,
                   initStep, initState, acqSeq, waited, granted>>
    /\ UNCHANGED lsnVars
    /\ UNCHANGED ntfVars

\* The except clause of Queue.get() for a getter whose future was resolved
\* before the cancellation arrived: when the queue still holds the item
\* the next getter is woken in its place.
CancelledGetterWakeup(q) ==
    IF q.items # <<>> /\ q.getters # <<>>
    THEN [q |-> [q EXCEPT !.getters = Tail(@)], woken |-> {Head(q.getters)}]
    ELSE [q |-> q, woken |-> {}]

\* The cancelled task runs: CancelledError is thrown at the await of its
\* getter inside Queue.get().
CancelResume(t) ==
    /\ ready # <<>> /\ Head(ready) = t
    /\ tpc[t] = "woken_cancel"
    /\ LET w == CancelledGetterWakeup(waitq)
       IN /\ waitq' = w.q
          /\ tpc' = Wake([tpc EXCEPT ![t] = "cancelled_late"], w.woken)
          /\ ready' = Enqueue(Tail(ready), w.woken)
    /\ top' = [top EXCEPT ![t] = "none"]
    /\ UNCHANGED <<sys_pgcon, sys_pgcon_waiters, tres, initStep, initState,
                   acqSeq, waited, granted>>
    /\ UNCHANGED lsnVars
    /\ UNCHANGED ntfVars

\* _fetch_roles, lines 343-345: once the query has returned, the rows are
\* decoded and self._roles is bound to a new immutables.Map, before the
\* finally clause releases; a query that raised leaves self._roles as it
\* was.  Other brackets do not touch it.
RolesAfter_AnyBracket(t) ==
    IF tres[t] = "ok" THEN t ELSE roles

RolesAfter(t) ==
    IF top[t] = "_fetch_roles" /\ tres[t] = "ok" THEN t ELSE roles

\* The end of a bracket whose query ended with res: the finally clause
\* calls _release_sys_pgcon whether the query returned or raised (lines
\* 241, 330, 347, 412, 592).
BracketExit_ReleaseOnSuccess(q, res) ==
    IF res = "ok" THEN QueuePutNowait(q, sys_pgcon)
    ELSE [q |-> q, woken |-> {}]

BracketExit(q, res) == QueuePutNowait(q, sys_pgcon)

(***************************************************************************)
(* _release_sys_pgcon (lines 584-585) run from the finally clause of a     *)
(* bracket of a task created after init(); the task then ends, normally    *)
(* or with the error of its query.                                         *)
(***************************************************************************)
ReleaseSysPgcon(t) ==
    /\ t \in Tasks
    /\ ready # <<>> /\ Head(ready) = t
    /\ tpc[t] = "iodone"
    /\ LET p == BracketExit(waitq, tres[t])
       IN /\ waitq' = p.q
          /\ tpc' = Wake([tpc EXCEPT ![t] =
                            IF tres[t] = "ok" THEN "done" ELSE "raised"],
                         p.woken)
          /\ ready' = Enqueue(Tail(ready), p.woken)
    /\ top' = [top EXCEPT ![t] = "none"]
    /\ tres' = [tres EXCEPT ![t] = "none"]
    /\ roles' = RolesAfter(t)
    /\ UNCHANGED <<sys_pgcon, sys_pgcon_waiters, initStep, initState,
                   acqSeq, waited, granted>>
    /\ UNCHANGED lsnVars
    /\ UNCHANGED <<schema_db, dbindex, intro>>

(***************************************************************************)
(* Server.init(), lines 169-176: a bracket of init() releases; when its    *)
(* query succeeded and a bracket is left, init() acquires again at once,   *)
(* without returning to the event loop.                                    *)
(***************************************************************************)
InitRelease ==
    /\ ready # <<>> /\ Head(ready) = InitTask
    /\ tpc[InitTask] = "iodone"
    /\ LET p == BracketExit(waitq, tres[InitTask])
           more == tres[InitTask] = "ok" /\ initStep < Len(InitOps)
           g == QueueGet(p.q, InitTask)
       IN /\ waitq' = IF more THEN g.q ELSE p.q
          /\ tpc' = Wake([tpc EXCEPT ![InitTask] =
                            IF more
                            THEN (IF g.got THEN "holding" ELSE "waiting")
                            ELSE IF tres[InitTask] = "ok" THEN "done"
                                 ELSE "raised"],
                         p.woken)
          /\ ready' = Enqueue(Tail(ready), p.woken)
          /\ initStep' = IF more THEN initStep + 1 ELSE initStep
          /\ initState' = IF more THEN "running"
                          ELSE IF tres[InitTask] = "ok" THEN "done"
                               ELSE "failed"
          /\ top' = [top EXCEPT ![InitTask] =
                        IF more THEN InitOps[initStep + 1] ELSE "none"]
          /\ IF ~more /\ tres[InitTask] = "ok"
             THEN \* lines 204-211: the management port is constructed
                  /\ mgmt_port' = 1
                  /\ portState' = [portState EXCEPT ![1] = "NotStarted"]
                  /\ portBind' = [portBind EXCEPT ![1] =
                                    MgmtBind(mgmt_host_addr, mgmt_port_no)]
                  /\ sys_auth' = PopulateSysAuth({})
             ELSE UNCHANGED <<mgmt_port, portState, portBind, sys_auth>>
    /\ tres' = [tres EXCEPT ![InitTask] = "none"]
    /\ roles' = RolesAfter(InitTask)
    /\ UNCHANGED <<schema_db, dbindex, intro>>
    /\ UNCHANGED cmpVars
    /\ UNCHANGED auth_reply
    /\ UNCHANGED <<sys_pgcon, sys_pgcon_waiters, acqSeq, waited, granted>>
    /\ UNCHANGED <<mgmt_host_addr, mgmt_port_no, sys_conf_ports, startState,
                   bringLeft, sess, portlog>>

(***************************************************************************)
(* The listener primitive (baseport.Port and its subclasses): start() and  *)
(* stop() are awaited; each may fail.  A listener whose start or stop is   *)
(* in flight is the one a caller's pc is waiting on; the effect takes      *)
(* place when the awaited call completes.                                  *)
(***************************************************************************)
StopOutcomes == {"ok", "err_stopped", "err_unchanged"}

\* State of a listener after start() completed (ok) or raised (~ok).
PortStartResult(st, ok) ==
    IF st = "Running" THEN "Running"
    ELSE IF ok THEN "Running" ELSE "Failed"

\* State of a listener after stop() completed with outcome r; stop() is
\* idempotent.
PortStopResult(st, r) ==
    IF r = "err_unchanged" THEN st
    ELSE IF st \in {"Running", "Failed"} THEN "Stopped" ELSE st

StopRaised(r) == r # "ok"

AllocatedPorts == {p \in PortIds : portState[p] # "Unalloc"}
\* The listener object the next _new_port call creates.
NewPortId == CHOOSE p \in PortIds \ AllocatedPorts :
                 \A q \in PortIds \ AllocatedPorts : p <= q

\* The listeners after a step that leaves them as ps / pb.
SetPorts(ps, pb) ==
    /\ portState' = ps
    /\ portBind' = pb

\* Sessions exist once start() has started the management port.
ServerUp == startState \in {"mgmt_started", "ports", "serving"}

\* A hook call may be made: the server accepts sessions and the calls
\* numbered before this one were made.
MayCall(s) ==
    /\ sess[s].pc = "idle"
    /\ \A c \in Calls : c < s => sess[c].pc # "idle"
    /\ ServerUp

\* A hook call returns (raised = "none") or raises to its caller; its
\* locals are dropped and what it raised is kept.
Return(raised) == [IdleSess EXCEPT !.pc = "done", !.raised = raised]

\* A hook whose tests of setting_name all fail returns None having done
\* nothing.
HookPass(s) ==
    /\ MayCall(s)
    /\ sess' = [sess EXCEPT ![s] = [Return("none") EXCEPT !.pc = "passed"]]
    /\ UNCHANGED <<portState, portBind, mgmt_port, mgmt_host_addr,
                   mgmt_port_no, sys_conf_ports, startState, bringLeft,
                   portlog, sys_auth>>
    /\ UNCHANGED arbVars

(***************************************************************************)
(* Server.start(), lines 635-643: the management port is started.          *)
(***************************************************************************)
ServerStartMgmt(ok) ==
    /\ initState = "done"
    /\ startState = "not_started"
    /\ mgmt_port # 0
    /\ portState' = [portState EXCEPT ![mgmt_port] = PortStartResult(@, ok)]
    /\ startState' = IF ok THEN "mgmt_started" ELSE "failed"
    /\ UNCHANGED <<portBind, mgmt_port, mgmt_host_addr, mgmt_port_no,
                   sys_conf_ports, bringLeft, sess>>
    /\ UNCHANGED arbVars
    /\ UNCHANGED portlog
    /\ UNCHANGED sys_auth

(***************************************************************************)
(* _restart_mgmt_port, lines 428-456                                       *)
(***************************************************************************)
\* The call, up to the await of self._mgmt_port.stop() (line 429).
RestartMgmtPortCall(s, nethost, netport) ==
    /\ MayCall(s)
    /\ mgmt_port # 0
    /\ sess' = [sess EXCEPT ![s] =
                  [IdleSess EXCEPT !.pc = "r_stop",
                                   !.nethost = nethost,
                                   !.netport = netport,
                                   !.orig = mgmt_port,
                                   !.target = mgmt_port]]
    /\ UNCHANGED <<portState, portBind, mgmt_port, mgmt_host_addr,
                   mgmt_port_no, sys_conf_ports, startState, bringLeft>>
    /\ UNCHANGED arbVars
    /\ UNCHANGED portlog
    /\ UNCHANGED sys_auth

\* _on_system_config_set, lines 543-549 (before-hook of CONFIGURE SET).
on_system_config_set(s, setting_name, value) ==
    IF setting_name = "listen_addresses"
    THEN RestartMgmtPortCall(s, value, mgmt_port_no)
    ELSE IF setting_name = "listen_port"
    THEN RestartMgmtPortCall(s, mgmt_host_addr, value)
    ELSE HookPass(s)

\* _on_system_config_reset, lines 551-559 (before-hook of CONFIGURE RESET).
on_system_config_reset(s, setting_name) ==
    IF setting_name = "listen_addresses"
    THEN RestartMgmtPortCall(s, "localhost", mgmt_port_no)
    ELSE IF setting_name = "listen_port"
    THEN RestartMgmtPortCall(s, mgmt_host_addr, EDGEDB_PORT)
    ELSE HookPass(s)

\* The test of lines 563 and 568.
IsAuthSetting_Any(setting_name) == TRUE

IsAuthSetting(setting_name) == setting_name = "auth"

\* _populate_sys_auth (lines 213-216) called from a hook; auth is what the
\* system configuration holds under 'auth' at that moment.
PopulateCall(s, auth) ==
    /\ MayCall(s)
    /\ sys_auth' = PopulateSysAuth(auth)
    /\ sess' = [sess EXCEPT ![s] = Return("none")]
    /\ UNCHANGED <<portState, portBind, mgmt_port, mgmt_host_addr,
                   mgmt_port_no, sys_conf_ports, startState, bringLeft,
                   portlog>>
    /\ UNCHANGED arbVars

\* get_auth_method(user), lines 679-691, called for a connecting user once
\* the server accepts connections: it reads the cached list and changes
\* nothing.
get_auth_method(user) ==
    /\ ServerUp
    /\ auth_reply' = [user |-> user, method |-> GetAuthMethod(sys_auth, user)]
    /\ UNCHANGED <<sys_pgcon, sys_pgcon_waiters, waitq, ready, tpc, top, tres,
                   initStep, initState, acqSeq, waited, granted>>
    /\ UNCHANGED <<portState, portBind, mgmt_port, mgmt_host_addr,
                   mgmt_port_no, sys_conf_ports, startState, bringLeft, sess,
                   portlog, sys_auth>>
    /\ UNCHANGED ntfVars
    /\ UNCHANGED cmpVars

\* _after_system_config_add, lines 561-564.
after_system_config_add(s, setting_name, value, auth) ==
    IF IsAuthSetting(setting_name)
    THEN PopulateCall(s, auth)
    ELSE HookPass(s)

\* _after_system_config_rem, lines 566-569.
after_system_config_rem(s, setting_name, value, auth) ==
    IF IsAuthSetting(setting_name)
    THEN PopulateCall(s, auth)
    ELSE HookPass(s)

\* _after_system_config_set, lines 571-573.
after_system_config_set(s, setting_name, value) == HookPass(s)

\* _after_system_config_reset, lines 575-577.
after_system_config_reset(s, setting_name) == HookPass(s)

\* The listener _restart_mgmt_port starts again when the replacement
\* cannot be used: self._mgmt_port, read when the rollback begins
\* (lines 440 and 451).
RollbackTarget_Replacement(s) == sess[s].newp

RollbackTarget(s) == mgmt_port

\* Line 429 completes; lines 431-441: the replacement is constructed and
\* its start() is awaited, or construction fails and the original's
\* start() is awaited.
restart_stop_returns(s, r, constructed) ==
    /\ sess[s].pc = "r_stop"
    /\ UNCHANGED <<mgmt_port, mgmt_host_addr, mgmt_port_no, sys_conf_ports,
                   startState, bringLeft>>
    /\ LET stopped == [portState EXCEPT ![sess[s].target] =
                          PortStopResult(@, r)]
       IN IF StopRaised(r)
          THEN /\ sess' = [sess EXCEPT ![s] = Return("stop_error")]
               /\ SetPorts(stopped, portBind)
          ELSE IF constructed
          THEN /\ sess' = [sess EXCEPT ![s] =
                             [@ EXCEPT !.pc = "r_start",
                                       !.newp = NewPortId]]
               /\ SetPorts([stopped EXCEPT ![NewPortId] = "NotStarted"],
                           [portBind EXCEPT ![NewPortId] =
                              MgmtBind(sess[s].nethost, sess[s].netport)])
          ELSE /\ sess' = [sess EXCEPT ![s] =
                             [@ EXCEPT !.pc = "r_rollback",
                                       !.target = RollbackTarget(s),
                                       !.err = "construct_error"]]
               /\ SetPorts(stopped, portBind)
    /\ UNCHANGED arbVars
    /\ UNCHANGED portlog
    /\ UNCHANGED sys_auth

\* What lines 454-456 record after the replacement has started.
RecordedAfterRestart(s) ==
    [port |-> sess[s].newp, host |-> sess[s].nethost, no |-> sess[s].netport]

\* Line 444 completes: on success lines 454-456 record the replacement;
\* on failure the replacement's stop() is awaited (line 447).
restart_start_returns(s, ok) ==
    /\ sess[s].pc = "r_start"
    /\ UNCHANGED <<sys_conf_ports, startState, bringLeft>>
    /\ IF ok
       THEN /\ mgmt_host_addr' = RecordedAfterRestart(s).host
            /\ mgmt_port_no' = RecordedAfterRestart(s).no
            /\ mgmt_port' = RecordedAfterRestart(s).port
            /\ sess' = [sess EXCEPT ![s] = Return("none")]
       ELSE /\ sess' = [sess EXCEPT ![s] =
                          [@ EXCEPT !.pc = "r_newstop",
                                    !.err = "start_error"]]
            /\ UNCHANGED <<mgmt_port, mgmt_host_addr, mgmt_port_no>>
    /\ SetPorts([portState EXCEPT ![sess[s].newp] = PortStartResult(@, ok)],
                portBind)
    /\ UNCHANGED arbVars
    /\ UNCHANGED portlog
    /\ UNCHANGED sys_auth

\* Line 447 completes (a failure is logged and dropped, lines 448-450);
\* the original's start() is awaited (line 451).
restart_newstop_returns(s, r) ==
    /\ sess[s].pc = "r_newstop"
    /\ UNCHANGED <<mgmt_port, mgmt_host_addr, mgmt_port_no, sys_conf_ports,
                   startState, bringLeft>>
    /\ sess' = [sess EXCEPT ![s] =
                  [@ EXCEPT !.pc = "r_rollback",
                            !.newp = 0,
                            !.target = RollbackTarget(s)]]
    /\ SetPorts([portState EXCEPT ![sess[s].newp] = PortStopResult(@, r)],
                portBind)
    /\ UNCHANGED arbVars
    /\ UNCHANGED portlog
    /\ UNCHANGED sys_auth

\* The error _restart_mgmt_port raises once the rollback start (line 440
\* or 451) has completed: the bare raise (lines 441, 452) re-raises the
\* pending error only when the rollback start returned; when it raised,
\* its error is the one that propagates.
RestartRaises_Swallowed(pending, rollback_ok) == "none"

RestartRaises(pending, rollback_ok) ==
    IF rollback_ok THEN pending ELSE "rollback_error"

\* Line 440 or 451 completes.
restart_rollback_returns(s, ok) ==
    /\ sess[s].pc = "r_rollback"
    /\ UNCHANGED <<mgmt_port, mgmt_host_addr, mgmt_port_no, sys_conf_ports,
                   startState, bringLeft>>
    /\ sess' = [sess EXCEPT ![s] =
                  [Return(RestartRaises(sess[s].err, ok))
                     EXCEPT !.rollback = IF ok THEN "ok" ELSE "failed"]]
    /\ SetPorts([portState EXCEPT ![sess[s].target] = PortStartResult(@, ok)],
                portBind)
    /\ UNCHANGED arbVars
    /\ UNCHANGED portlog
    /\ UNCHANGED sys_auth

(***************************************************************************)
(* _start_portconf (lines 458-499) and _stop_portconf (lines 501-514)      *)
(***************************************************************************)
\* How a call of _start_portconf / _stop_portconf made by caller c ends:
\* a hook call is over; Server.start() goes on with its loop when the call
\* returned and fails when it raised (line 649 does not catch).
PortconfReturn(c, raised) ==
    IF c = StartCaller /\ raised = "none" THEN IdleSess ELSE Return(raised)

StartStateAfter(c, raised) ==
    IF c = StartCaller /\ raised # "none" THEN "failed" ELSE startState

\* The test of line 460.
AlreadyStarted_Never(portconf) == FALSE

AlreadyStarted(portconf) == sys_conf_ports[portconf] # 0

\* _start_portconf, lines 458-486, up to the await of port.start().
StartPortconfCall(c, portconf, suppress_errors, constructed) ==
    /\ sess[c].pc = "idle"
    /\ UNCHANGED <<mgmt_port, mgmt_host_addr, mgmt_port_no, sys_conf_ports>>
    /\ IF AlreadyStarted(portconf)
       THEN \* lines 460-463: already started
            /\ sess' = [sess EXCEPT ![c] = PortconfReturn(c, "none")]
            /\ startState' = StartStateAfter(c, "none")
            /\ portlog' = Logged("already_started", portconf, c)
            /\ UNCHANGED <<portState, portBind>>
       ELSE IF portconf \notin KnownProtocols
       THEN \* lines 472-474
            /\ sess' = [sess EXCEPT ![c] =
                          PortconfReturn(c, "InvalidReferenceError")]
            /\ startState' = StartStateAfter(c, "InvalidReferenceError")
            /\ UNCHANGED <<portState, portBind, portlog>>
       ELSE IF ~constructed
       THEN \* line 476 raises
            /\ sess' = [sess EXCEPT ![c] =
                          PortconfReturn(c, "construct_error")]
            /\ startState' = StartStateAfter(c, "construct_error")
            /\ UNCHANGED <<portState, portBind, portlog>>
       ELSE /\ UNCHANGED portlog
            /\ sess' = [sess EXCEPT ![c] =
                          [IdleSess EXCEPT !.pc = "p_start",
                                           !.conf = portconf,
                                           !.suppress = suppress_errors,
                                           !.newp = NewPortId]]
            /\ SetPorts([portState EXCEPT ![NewPortId] = "NotStarted"],
                        [portBind EXCEPT ![NewPortId] = ConfBind(portconf)])
            /\ UNCHANGED startState
    /\ UNCHANGED arbVars
    /\ UNCHANGED sys_auth

\* Server.start(), lines 645-647: the configured ports are looked up.
ServerStartPorts(ports) ==
    /\ startState = "mgmt_started"
    /\ startState' = "ports"
    /\ bringLeft' = ports
    /\ UNCHANGED <<portState, portBind, mgmt_port, mgmt_host_addr,
                   mgmt_port_no, sys_conf_ports, sess>>
    /\ UNCHANGED arbVars
    /\ UNCHANGED portlog
    /\ UNCHANGED sys_auth

\* Server.start(), lines 648-649: the next configured port is brought up.
ServerStartPortconf(portconf, constructed) ==
    /\ startState = "ports"
    /\ portconf \in bringLeft
    /\ bringLeft' = bringLeft \ {portconf}
    /\ StartPortconfCall(StartCaller, portconf, TRUE, constructed)

\* Server.start(), line 651: every configured port was gone through.
ServerStartServing ==
    /\ startState = "ports"
    /\ bringLeft = {}
    /\ sess[StartCaller].pc = "idle"
    /\ startState' = "serving"
    /\ UNCHANGED <<portState, portBind, mgmt_port, mgmt_host_addr,
                   mgmt_port_no, sys_conf_ports, bringLeft, sess>>
    /\ UNCHANGED arbVars
    /\ UNCHANGED portlog
    /\ UNCHANGED sys_auth

\* _on_system_config_add, lines 533-536 (before-hook of CONFIGURE INSERT).
on_system_config_add(s, setting_name, value, constructed) ==
    IF setting_name = "ports"
    THEN /\ MayCall(s)
         /\ StartPortconfCall(s, value, FALSE, constructed)
         /\ UNCHANGED bringLeft
    ELSE HookPass(s)

\* Whether _start_portconf stores the listener in _sys_conf_ports
\* (line 498) once start() has ended: after a failed start the except
\* clause re-raises unless suppress_errors, and falls through to line 498
\* when suppress_errors.
RegistersAfterStart_Never(started, suppress_errors) == FALSE

RegistersAfterStart(started, suppress_errors) ==
    started \/ suppress_errors

\* Line 486 completes: on success the listener is registered (lines
\* 495-499); on failure its stop() is awaited (line 488).
start_portconf_start_returns(c, ok) ==
    /\ sess[c].pc = "p_start"
    /\ UNCHANGED <<mgmt_port, mgmt_host_addr, mgmt_port_no, bringLeft>>
    /\ IF ok
       THEN /\ sys_conf_ports' =
                 IF RegistersAfterStart(TRUE, sess[c].suppress)
                 THEN [sys_conf_ports EXCEPT ![sess[c].conf] = sess[c].newp]
                 ELSE sys_conf_ports
            /\ sess' = [sess EXCEPT ![c] = PortconfReturn(c, "none")]
            /\ portlog' = Logged("started", sess[c].conf, c)
       ELSE /\ sess' = [sess EXCEPT ![c] = [@ EXCEPT !.pc = "p_cleanup",
                                                      !.err = "start_error"]]
            /\ UNCHANGED <<sys_conf_ports, portlog>>
    /\ UNCHANGED startState
    /\ SetPorts([portState EXCEPT ![sess[c].newp] = PortStartResult(@, ok)],
                portBind)
    /\ UNCHANGED arbVars
    /\ UNCHANGED sys_auth

\* The error _start_portconf raises once the cleanup stop (line 488) has
\* completed after a failed start: the stop's own error when it raised,
\* nothing when suppress_errors, else the start error (line 494).
StartPortconfRaises(stop_raised, suppress_errors) ==
    IF stop_raised THEN "stop_error"
    ELSE IF suppress_errors THEN "none" ELSE "start_error"

\* Line 488 completes; lines 489-499.
start_portconf_cleanup_returns(c, r) ==
    /\ sess[c].pc = "p_cleanup"
    /\ UNCHANGED <<mgmt_port, mgmt_host_addr, mgmt_port_no, bringLeft>>
    /\ LET raised == StartPortconfRaises(StopRaised(r), sess[c].suppress)
       IN /\ sys_conf_ports' =
               IF raised = "none"
                  /\ RegistersAfterStart(FALSE, sess[c].suppress)
               THEN [sys_conf_ports EXCEPT ![sess[c].conf] = sess[c].newp]
               ELSE sys_conf_ports
          /\ sess' = [sess EXCEPT ![c] = PortconfReturn(c, raised)]
          /\ startState' = StartStateAfter(c, raised)
          /\ portlog' = IF raised = "none"
                        THEN Logged("failed_to_start", sess[c].conf, c)
                        ELSE portlog
    /\ SetPorts([portState EXCEPT ![sess[c].newp] = PortStopResult(@, r)],
                portBind)
    /\ UNCHANGED arbVars
    /\ UNCHANGED sys_auth

\* The test of line 502.
NoPortToStop_Never(portconf) == FALSE

NoPortToStop(portconf) == sys_conf_ports[portconf] = 0

\* What _stop_portconf raises once port.stop() has completed: a failure is
\* caught and logged (lines 509-512).
StopPortconfRaises_Propagates(stop_raised) ==
    IF stop_raised THEN "stop_error" ELSE "none"

StopPortconfRaises(stop_raised) == "none"

\* _stop_portconf, lines 501-508, up to the await of port.stop(): the
\* registration is removed first.
StopPortconfCall(c, portconf) ==
    /\ sess[c].pc = "idle"
    /\ UNCHANGED <<portState, portBind, mgmt_port, mgmt_host_addr,
                   mgmt_port_no, startState>>
    /\ IF NoPortToStop(portconf)
       THEN \* lines 502-504: no port to stop
            /\ sess' = [sess EXCEPT ![c] = PortconfReturn(c, "none")]
            /\ portlog' = Logged("no_port_to_stop", portconf, c)
            /\ UNCHANGED sys_conf_ports
       ELSE /\ UNCHANGED portlog
            /\ sess' = [sess EXCEPT ![c] =
                          [IdleSess EXCEPT !.pc = "p_stop",
                                           !.conf = portconf,
                                           !.target = sys_conf_ports[portconf]]]
            /\ sys_conf_ports' = [sys_conf_ports EXCEPT ![portconf] = 0]
    /\ UNCHANGED arbVars
    /\ UNCHANGED sys_auth

\* _on_system_config_rem, lines 538-541 (before-hook of CONFIGURE RESET of
\* a configuration object).
on_system_config_rem(s, setting_name, value) ==
    IF setting_name = "ports"
    THEN /\ MayCall(s)
         /\ StopPortconfCall(s, value)
         /\ UNCHANGED bringLeft
    ELSE HookPass(s)

\* Line 508 completes; a failure is logged and dropped (lines 509-512).
stop_portconf_returns(c, r) ==
    /\ sess[c].pc = "p_stop"
    /\ UNCHANGED <<mgmt_port, mgmt_host_addr, mgmt_port_no, sys_conf_ports,
                   startState, bringLeft>>
    /\ sess' = [sess EXCEPT ![c] =
                  PortconfReturn(c, StopPortconfRaises(StopRaised(r)))]
    /\ portlog' = Logged(IF StopRaised(r) THEN "failed_to_stop" ELSE "stopped",
                         sess[c].conf, c)
    /\ SetPorts([portState EXCEPT ![sess[c].target] = PortStopResult(@, r)],
                portBind)
    /\ UNCHANGED arbVars
    /\ UNCHANGED sys_auth

(***************************************************************************)
(* CONFIGURE statement compilation (edb/edgeql/compiler/config.py)         *)
(***************************************************************************)
\* The catalog: the cfg module of the schema.  AbstractConfig is the root
\* configuration object; Config extends it; Trust and SCRAM extend
\* AuthMethod.
HostType == "AbstractConfig"

ObjectTypes ==
    {"AbstractConfig", "Config", "Auth", "AuthMethod", "Trust", "SCRAM",
     "Port"}

\* cfg_type.get_ancestors(schema).objects(schema), nearest first.
Ancestors(T) ==
    CASE T \in {"Trust", "SCRAM"} -> <<"AuthMethod">>
      [] T = "Config" -> <<"AbstractConfig">>
      [] OTHER -> <<>>

\* ptr_source.issubclass(schema, cfg_host_type).
IsSubclass(T, parent) ==
    T = parent \/ \E i \in 1..Len(Ancestors(T)) : Ancestors(T)[i] = parent

\* A pointer with its annotations as stored: cfg::system and
\* cfg::requires_restart hold the text 'true', cfg::backend_setting and
\* cfg::affects_compilation hold JSON text; "absent" when not annotated.
Ptr(name, source, target, card, system, restart, backend, compilation) ==
    [name |-> name, source |-> source, target |-> target, card |-> card,
     system |-> system, restart |-> restart, backend |-> backend,
     compilation |-> compilation]

\* The properties of AbstractConfig.
HostProps ==
    {Ptr("listen_port", "AbstractConfig", "int64", "One",
         "true", "absent", "absent", "absent"),
     Ptr("shared_buffers", "AbstractConfig", "str", "One",
         "true", "true", "\"shared_buffers\"", "absent"),
     Ptr("query_work_mem", "AbstractConfig", "str", "One",
         "absent", "absent", "\"work_mem\"", "false"),
     Ptr("allow_bare_ddl", "AbstractConfig", "str", "AtMostOne",
         "false", "false", "absent", "true")}

\* Links every catalog holds.
BaseLinks ==
    {Ptr("auth", "AbstractConfig", "Auth", "Many",
         "true", "absent", "absent", "absent"),
     Ptr("ports", "AbstractConfig", "Port", "Many",
         "true", "absent", "absent", "absent"),
     Ptr("method", "Auth", "AuthMethod", "One",
         "absent", "absent", "absent", "absent")}

\* Links a catalog may hold besides: the copy of auth that Config
\* inherits, a second link of the root to Auth, a link of the root to
\* AuthMethod, and a link of Auth to Trust.
MoreLinks ==
    {Ptr("auth", "Config", "Auth", "Many",
         "true", "absent", "absent", "absent"),
     Ptr("fallback_auth", "AbstractConfig", "Auth", "AtMostOne",
         "absent", "true", "absent", "absent"),
     Ptr("default_method", "AbstractConfig", "AuthMethod", "AtMostOne",
         "absent", "absent", "absent", "absent"),
     Ptr("preferred", "Auth", "Trust", "AtMostOne",
         "absent", "absent", "absent", "absent")}

Catalogs == {BaseLinks \cup more : more \in SUBSET MoreLinks}

\* The order in which a frozenset of links is iterated: fixed by the
\* hashes of the snapshot's objects, not by the source.  A link comes
\* before another when its key is smaller; the two orders are each
\* other's reverse.
LinkKey(l) ==
    CASE l.name = "auth" /\ l.source = "AbstractConfig" -> 1
      [] l.name = "auth" -> 2
      [] l.name = "fallback_auth" -> 3
      [] l.name = "default_method" -> 4
      [] l.name = "preferred" -> 5
      [] l.name = "ports" -> 6
      [] OTHER -> 7

IterOrders == {"up", "down"}

\* next(iter(ptrs)), line 289.
NextIter(ptrs, order) ==
    CHOOSE l \in ptrs :
        \A m \in ptrs :
            IF order = "up" THEN LinkKey(l) <= LinkKey(m)
            ELSE LinkKey(l) >= LinkKey(m)

\* json.loads on the annotation texts the catalog holds.
JsonLoads(text) ==
    CASE text = "true" -> TRUE
      [] text = "false" -> FALSE
      [] text = "\"work_mem\"" -> "work_mem"
      [] text = "\"shared_buffers\"" -> "shared_buffers"

\* None where a pointer is expected.
NoPtr == [name |-> "None"]

\* cfg_host_type.maybe_get_ptr(schema, name), line 258.
MaybeGetPtr_AnyName(links, name) ==
    CHOOSE p \in HostProps : p.name = "query_work_mem"

MaybeGetPtr(links, name) ==
    LET found == {p \in HostProps \cup links :
                     p.source = HostType /\ p.name = name}
    IN IF found = {} THEN NoPtr ELSE CHOOSE p \in found : TRUE

\* schema.get_referrers(ct, scls_type=Link, field_name='target'), line 285.
GetReferrers(links, ct) == {l \in links : l.target = ct}

\* Lines 282-292: the first type of the mro that any link targets gives
\* the candidate.
RECURSIVE PtrCandidate(_, _, _)
PtrCandidate(links, order, mro) ==
    IF mro = <<>> THEN NoPtr
    ELSE LET ptrs == GetReferrers(links, Head(mro))
         IN IF ptrs # {} THEN NextIter(ptrs, order)
            ELSE PtrCandidate(links, order, Tail(mro))

NoInfo == [param_name |-> "none"]

Raise(error) == [err |-> error, info |-> NoInfo]

\* Lines 307-312: the cfg::system annotation is present and reads 'true'.
SystemAnnotated_Never(ptr) == FALSE

SystemAnnotated(ptr) == ptr.system # "absent" /\ ptr.system = "true"

\* Lines 309-355: the annotations are read and the SettingInfo is built.
SettingInfoOf(expr, name, cfg_type, ptr) ==
    LET system == SystemAnnotated(ptr)
        requires_restart == ptr.restart # "absent" /\ ptr.restart = "true"
        backend_setting == IF ptr.backend # "absent"
                           THEN JsonLoads(ptr.backend) ELSE "None"
        affects_compilation == IF ptr.compilation # "absent"
                               THEN JsonLoads(ptr.compilation) ELSE FALSE
    IN IF system /\ expr.scope # "INSTANCE"
       THEN Raise("ConfigurationError")
       ELSE [err |-> "none",
             info |-> [param_name |-> name,
                       param_type |-> cfg_type,
                       cardinality |-> ptr.card,
                       requires_restart |-> requires_restart,
                       backend_setting |-> backend_setting,
                       affects_compilation |-> affects_compilation]]

\* Lines 264-307: expr.name names a configuration type.
ValidateObjectOp(expr, links, order) ==
    IF expr.op = "ConfigSet" THEN Raise("ConfigurationError")
    ELSE IF expr.name \notin ObjectTypes THEN Raise("ConfigurationError")
    ELSE LET cfg_type == expr.name
             ptr_candidate ==
                 PtrCandidate(links, order, <<cfg_type>> \o Ancestors(cfg_type))
         IN IF ptr_candidate = NoPtr
            THEN Raise("ConfigurationError")
            ELSE IF ~IsSubclass(ptr_candidate.source, HostType)
            THEN Raise("ConfigurationError")
            ELSE SettingInfoOf(expr, ptr_candidate.name, cfg_type,
                               ptr_candidate)

\* _validate_op, lines 241-355.
ValidateOp(expr, links, order) ==
    IF expr.module # "" /\ expr.module # "cfg"
    THEN Raise("QueryError")
    ELSE LET ptr == IF expr.op \in {"ConfigSet", "ConfigReset"}
                    THEN MaybeGetPtr(links, expr.name) ELSE NoPtr
         IN IF ptr # NoPtr
            THEN SettingInfoOf(expr, expr.name, ptr.target, ptr)
            ELSE ValidateObjectOp(expr, links, order)

\* qlast shape elements: a constant, an expression selecting an object
\* that exists, a nested INSERT, and the computed _tname that
\* _inject_tname appends (lines 208-223).
ConstEl(name) ==
    [name |-> name, kind |-> "const", type |-> "none", shape |-> <<>>]
SelectEl(name, T) ==
    [name |-> name, kind |-> "select", type |-> T, shape |-> <<>>]
InsertEl(name, T, shape) ==
    [name |-> name, kind |-> "insert", type |-> T, shape |-> shape]
TnameEl(T) ==
    [name |-> "_tname", kind |-> "introspect", type |-> T, shape |-> <<>>]

\* _inject_tname, lines 198-223, on the shape of an InsertQuery of type T:
\* the nested inserts are done first, then the element is appended to the
\* shape list in place.
RECURSIVE InjectTname(_, _)
InjectTname(T, shape) ==
    [i \in 1..Len(shape) |->
        IF shape[i].kind = "insert"
        THEN [shape[i] EXCEPT !.shape = InjectTname(shape[i].type, @)]
        ELSE shape[i]]
    \o <<TnameEl(T)>>

\* compile_ConfigInsert, lines 168-170: the loop over the statement's own
\* shape.
InjectNested(shape) ==
    [i \in 1..Len(shape) |->
        IF shape[i].kind = "insert"
        THEN [shape[i] EXCEPT !.shape = InjectTname(shape[i].type, @)]
        ELSE shape[i]]

\* The IR the expression compiler gives for an insert shape: one element
\* per shape element after the identity field, object-typed for a select
\* of an object or a nested insert, an InsertStmt for a nested insert.
RECURSIVE CompileShape(_)
CompileShape(shape) ==
    <<[ptrname |-> "id", is_object |-> FALSE, is_insert |-> FALSE,
       shape |-> <<>>]>>
    \o [i \in 1..Len(shape) |->
          [ptrname |-> shape[i].name,
           is_object |-> shape[i].kind \in {"select", "insert"},
           is_insert |-> shape[i].kind = "insert",
           shape |-> IF shape[i].kind = "insert"
                     THEN CompileShape(shape[i].shape) ELSE <<>>]]

\* _validate_config_object, lines 226-238: the identity field is skipped
\* and nested inserts are descended into; no branch raises.
RECURSIVE ValidateConfigObject(_)
ValidateConfigObject(shape) ==
    LET raising == {i \in 1..Len(shape) :
                       /\ shape[i].ptrname # "id"
                       /\ shape[i].is_object /\ shape[i].is_insert
                       /\ ValidateConfigObject(shape[i].shape) # "none"}
    IN IF raising = {} THEN "none" ELSE "ConfigurationError"

NoNode == [kind |-> "None"]
NoSelector == [over |-> "None"]

\* A compilation that raised: no node; the statement tree as it is then.
Failed(error, expr) == [err |-> error, node |-> NoNode, tree |-> expr]

\* The fields the three IR nodes share (lines 75-82, 123-130, 185-192).
Node(kind, info, expr) ==
    [kind |-> kind, name |-> info.param_name,
     cardinality |-> info.cardinality, scope |-> expr.scope,
     requires_restart |-> info.requires_restart,
     backend_setting |-> info.backend_setting]

\* compile_ConfigSet, lines 60-85.
CompileConfigSet(expr, links, order) ==
    LET v == ValidateOp(expr, links, order)
    IN IF v.err # "none" THEN Failed(v.err, expr)
       ELSE IF ~expr.constant THEN Failed("QueryError", expr)
       ELSE [err |-> "none",
             node |-> Node("ConfigSet", v.info, expr) @@
                      [expr |-> "const"],
             tree |-> expr]

\* info.param_type.is_object_type() / isinstance(..., ObjectType).
IsObjectType(T) == T \in ObjectTypes

\* The test of line 98.
PrimitiveWithFilter_Never(info, expr) == FALSE

PrimitiveWithFilter(info, expr) ==
    ~IsObjectType(info.param_type) /\ expr.where # "None"

\* compile_ConfigReset, lines 88-132.
CompileConfigReset(expr, links, order) ==
    LET v == ValidateOp(expr, links, order)
    IN IF v.err # "none" THEN Failed(v.err, expr)
       ELSE IF PrimitiveWithFilter(v.info, expr)
       THEN Failed("QueryError", expr)
       ELSE [err |-> "none",
             node |-> Node("ConfigReset", v.info, expr) @@
                      [selector |->
                          IF IsObjectType(v.info.param_type)
                          THEN [over |-> v.info.param_type,
                                where |-> expr.where]
                          ELSE NoSelector],
             tree |-> expr]

\* The test of line 141.
InsertScopeSupported_Any(expr) == TRUE

InsertScopeSupported(expr) == expr.scope = "INSTANCE"

\* compile_ConfigInsert, lines 135-195.
CompileConfigInsert(expr, links, order) ==
    LET v == ValidateOp(expr, links, order)
    IN IF v.err # "none" THEN Failed(v.err, expr)
       ELSE IF ~InsertScopeSupported(expr)
       THEN Failed("UnsupportedFeatureError", expr)
       ELSE IF expr.name \notin ObjectTypes
       THEN Failed("ConfigurationError", expr)
       ELSE LET injected == [expr EXCEPT !.shape = InjectNested(@)]
                insert_subject == CompileShape(injected.shape)
                invalid == ValidateConfigObject(insert_subject)
            IN IF invalid # "none" THEN Failed(invalid, injected)
               ELSE [err |-> "none",
                     node |-> Node("ConfigInsert", v.info, expr) @@
                              [expr |-> insert_subject],
                     tree |-> injected]

\* dispatch.compile on a CONFIGURE statement.
Compile(expr, links, order) ==
    CASE expr.op = "ConfigSet" -> CompileConfigSet(expr, links, order)
      [] expr.op = "ConfigReset" -> CompileConfigReset(expr, links, order)
      [] expr.op = "ConfigInsert" -> CompileConfigInsert(expr, links, order)

\* The statements compiled.
Modules == {"", "cfg", "std"}
Scopes == {"INSTANCE", "DATABASE", "SESSION"}
SettingIds ==
    {"listen_port", "shared_buffers", "query_work_mem", "allow_bare_ddl",
     "auth", "fallback_auth", "Auth", "Trust", "AuthMethod", "Port",
     "nosuch"}

InsertShapes ==
    {<<>>,
     <<ConstEl("priority")>>,
     <<ConstEl("priority"), SelectEl("method", "Trust")>>,
     <<ConstEl("priority"), InsertEl("method", "Trust", <<>>)>>,
     <<InsertEl("method", "SCRAM", <<ConstEl("iterations")>>),
       InsertEl("fallback", "Trust", <<>>)>>,
     <<InsertEl("method", "Trust", <<SelectEl("delegate", "Auth")>>)>>,
     <<ConstEl("priority"),
       InsertEl("method", "Trust",
                <<InsertEl("delegate", "Auth",
                           <<ConstEl("priority"),
                             InsertEl("method", "SCRAM", <<>>)>>)>>)>>,
     <<InsertEl("method", "Trust",
                <<InsertEl("delegate", "Auth",
                           <<SelectEl("method", "SCRAM")>>)>>)>>}

Stmt(op, module, name, scope, constant, where, shape) ==
    [op |-> op, module |-> module, name |-> name, scope |-> scope,
     constant |-> constant, where |-> where, shape |-> shape]

Statements ==
    {Stmt("ConfigSet", m, n, s, c, "None", <<>>) :
        m \in Modules, n \in SettingIds, s \in Scopes, c \in BOOLEAN}
    \cup
    {Stmt("ConfigReset", m, n, s, TRUE, w, <<>>) :
        m \in Modules, n \in SettingIds, s \in Scopes,
        w \in {"None", "filter"}}
    \cup
    {Stmt("ConfigInsert", m, n, s, TRUE, "None", sh) :
        m \in Modules, n \in SettingIds, s \in Scopes, sh \in InsertShapes}

NoStmt == [op |-> "None"]
NoCatalog == [links |-> {}, order |-> "up"]
NoResult == [err |-> "none", node |-> NoNode]

InitCmp ==
    /\ cstmt = NoStmt
    /\ ccat = NoCatalog
    /\ cres = NoResult
    /\ ccount = 0

\* A statement is parsed while the schema is some catalog snapshot.
ParseStmt(expr, links, order) ==
    /\ cstmt = NoStmt
    /\ cstmt' = expr
    /\ ccat' = [links |-> links, order |-> order]
    /\ UNCHANGED <<cres, ccount>>
    /\ UNCHANGED srvVars

\* The statement tree is compiled (again, when it was compiled before).
CompileStmt ==
    /\ cstmt # NoStmt
    /\ ccount < MaxCompiles
    /\ LET r == Compile(cstmt, ccat.links, ccat.order)
       IN /\ cres' = [err |-> r.err, node |-> r.node]
          /\ cstmt' = r.tree
    /\ ccount' = ccount + 1
    /\ UNCHANGED ccat
    /\ UNCHANGED srvVars

NextArb ==
    \/ ServerInit
    \/ \E t \in AllTasks, res \in {"ok", "err"} : IOComplete(t, res)
    \/ \E t \in Tasks, op \in TaskOps : Spawn(t, op)
    \/ StopCall
    \/ \E t \in AllTasks : AcquireSysPgcon(t)
    \/ \E t \in AllTasks : GetResume(t)
    \/ \E t \in Tasks : ReleaseSysPgcon(t)
    \/ InitRelease

Init == InitArb /\ InitLsn /\ InitCmp

SpecArb == Init /\ [][NextArb]_vars

\* The arbitrator with cancellation of waiting tasks.
NextCancel ==
    \/ NextArb
    \/ \E t \in Tasks : CancelWaiting(t)
    \/ \E t \in Tasks : CancelWoken(t)
    \/ \E t \in Tasks : CancelResume(t)

SpecCancel == Init /\ [][NextCancel]_vars

\* The notification handlers and the tasks they create.
NextNotify ==
    \/ ServerInit
    \/ \E t \in AllTasks, res \in {"ok", "err"} : IOComplete(t, res)
    \/ InitRelease
    \/ \E t \in Tasks : on_role_change(t)
    \/ \E t \in Tasks : on_global_schema_change(t)
    \/ \E t \in Tasks, d \in DbNames : on_remote_ddl(t, d)
    \/ \E t \in Tasks, ok \in BOOLEAN : introspect_db_reads(t, ok)
    \/ \E t \in Tasks, ok \in BOOLEAN : introspect_db_registers(t, ok)
    \/ \E t \in AllTasks : AcquireSysPgcon(t)
    \/ \E t \in AllTasks : GetResume(t)
    \/ \E t \in Tasks : ReleaseSysPgcon(t)

SpecNotify == Init /\ [][NextNotify]_vars

\* Server.init() alone: the prefix of every run of the listener part.
NextBoot ==
    \/ ServerInit
    \/ \E res \in {"ok", "err"} : IOComplete(InitTask, res)
    \/ InitRelease

NextMgmt ==
    \/ NextBoot
    \/ \E ok \in BOOLEAN : ServerStartMgmt(ok)
    \/ \E s \in Calls, v \in Hosts :
          on_system_config_set(s, "listen_addresses", v)
    \/ \E s \in Calls, v \in PortNos :
          on_system_config_set(s, "listen_port", v)
    \/ \E s \in Calls, n \in {"listen_addresses", "listen_port"} :
          on_system_config_reset(s, n)
    \/ \E s \in Calls, r \in StopOutcomes, c \in BOOLEAN :
          restart_stop_returns(s, r, c)
    \/ \E s \in Calls, ok \in BOOLEAN : restart_start_returns(s, ok)
    \/ \E s \in Calls, r \in StopOutcomes : restart_newstop_returns(s, r)
    \/ \E s \in Calls, ok \in BOOLEAN : restart_rollback_returns(s, ok)

SpecMgmt == Init /\ [][NextMgmt]_vars

NextPorts ==
    \/ NextBoot
    \/ \E ok \in BOOLEAN : ServerStartMgmt(ok)
    \/ \E ports \in SUBSET PortConfs : ServerStartPorts(ports)
    \/ \E k \in PortConfs, c \in BOOLEAN : ServerStartPortconf(k, c)
    \/ ServerStartServing
    \/ \E s \in Calls, k \in PortConfs, c \in BOOLEAN :
          on_system_config_add(s, "ports", k, c)
    \/ \E s \in Calls, k \in PortConfs : on_system_config_rem(s, "ports", k)
    \/ \E c \in Callers, ok \in BOOLEAN : start_portconf_start_returns(c, ok)
    \/ \E c \in Callers, r \in StopOutcomes :
          start_portconf_cleanup_returns(c, r)
    \/ \E c \in Callers, r \in StopOutcomes : stop_portconf_returns(c, r)

SpecPorts == Init /\ [][NextPorts]_vars

\* Values a hook is called with for a setting.
HookValues(setting_name) ==
    CASE setting_name = "ports" -> PortConfs
      [] setting_name = "listen_addresses" -> Hosts
      [] setting_name = "listen_port" -> PortNos
      [] setting_name = "auth" -> AuthEntries
      [] OTHER -> {"20MB"}

\* The dispatcher: every hook, called with every setting name.
NextHooks ==
    \/ NextBoot
    \/ \E ok \in BOOLEAN : ServerStartMgmt(ok)
    \/ \E s \in Calls, n \in SettingNames, c \in BOOLEAN :
          \E v \in HookValues(n) : on_system_config_add(s, n, v, c)
    \/ \E s \in Calls, n \in SettingNames :
          \E v \in HookValues(n) : on_system_config_rem(s, n, v)
    \/ \E s \in Calls, n \in SettingNames :
          \E v \in HookValues(n) : on_system_config_set(s, n, v)
    \/ \E s \in Calls, n \in SettingNames : on_system_config_reset(s, n)
    \/ \E s \in Calls, n \in SettingNames, auth \in SUBSET AuthEntries :
          \E v \in HookValues(n) : after_system_config_add(s, n, v, auth)
    \/ \E s \in Calls, n \in SettingNames, auth \in SUBSET AuthEntries :
          \E v \in HookValues(n) : after_system_config_rem(s, n, v, auth)
    \/ \E s \in Calls, n \in SettingNames :
          \E v \in HookValues(n) : after_system_config_set(s, n, v)
    \/ \E s \in Calls, n \in SettingNames : after_system_config_reset(s, n)
    \/ \E s \in Calls, r \in StopOutcomes, c \in BOOLEAN :
          restart_stop_returns(s, r, c)
    \/ \E s \in Calls, ok \in BOOLEAN : restart_start_returns(s, ok)
    \/ \E s \in Calls, r \in StopOutcomes : restart_newstop_returns(s, r)
    \/ \E s \in Calls, ok \in BOOLEAN : restart_rollback_returns(s, ok)
    \/ \E c \in Calls, ok \in BOOLEAN : start_portconf_start_returns(c, ok)
    \/ \E c \in Calls, r \in StopOutcomes :
          start_portconf_cleanup_returns(c, r)
    \/ \E c \in Calls, r \in StopOutcomes : stop_portconf_returns(c, r)

SpecHooks == Init /\ [][NextHooks]_vars

\* The after-hooks of add and remove, called while the system
\* configuration holds any set of auth objects, among the calls that
\* restart the management port.
NextAuth ==
    \/ NextMgmt
    \/ \E s \in Calls, n \in SettingNames, auth \in SUBSET AuthObjects :
          \E v \in HookValues(n) : after_system_config_add(s, n, v, auth)
    \/ \E s \in Calls, n \in SettingNames, auth \in SUBSET AuthObjects :
          \E v \in HookValues(n) : after_system_config_rem(s, n, v, auth)

SpecAuth == Init /\ [][NextAuth]_vars

\* Users connecting while the after-hooks of add and remove refresh the
\* cached list.
NextAuthRead ==
    \/ NextBoot
    \/ \E ok \in BOOLEAN : ServerStartMgmt(ok)
    \/ \E s \in Calls, n \in SettingNames, auth \in SUBSET AuthObjects :
          \E v \in HookValues(n) : after_system_config_add(s, n, v, auth)
    \/ \E s \in Calls, n \in SettingNames, auth \in SUBSET AuthObjects :
          \E v \in HookValues(n) : after_system_config_rem(s, n, v, auth)
    \/ \E user \in Users : get_auth_method(user)

SpecAuthRead == Init /\ [][NextAuthRead]_vars

\* The compiler: statements are parsed and compiled.
NextCompile ==
    \/ /\ cstmt = NoStmt
       /\ \E expr \in Statements, links \in Catalogs, order \in IterOrders :
             ParseStmt(expr, links, order)
    \/ CompileStmt

SpecCompile == Init /\ [][NextCompile]_vars

(***************************************************************************)
(* Claims about the arbitrator                                             *)
(***************************************************************************)

\* C1: while the queue exists (between init() and stop()), the number of
\* handles in the queue plus the number of tasks holding the handle is
\* exactly 1.
C1_MutualExclusion ==
    sys_pgcon_waiters = "queue" =>
        Len(waitq.items) + Cardinality(Holders) = 1

\* C1 witness: one task holds the handle while two others are suspended.
C1_Witness ==
    /\ sys_pgcon_waiters = "queue"
    /\ \E t \in Tasks : tpc[t] = "holding"
    /\ Len(waitq.getters) >= 2
    /\ waitq.items = <<>>

\* Position of task t in the order of acquire calls (0: has not called).
AcqPos(t) ==
    IF t \in SeqToSet(acqSeq)
    THEN CHOOSE i \in 1..Len(acqSeq) : acqSeq[i] = t
    ELSE 0

WasGranted(t) == t \in SeqToSet(granted)

\* C2: tasks that called _acquire_sys_pgcon while the handle was held (so
\* that each of them suspended) are granted the handle in the order of
\* their calls: a later waiter never has the handle before an earlier one.
C2_WaitersServedInCallOrder ==
    \A a, b \in SeqToSet(acqSeq) :
        (/\ a \in waited
         /\ b \in waited
         /\ AcqPos(a) < AcqPos(b)
         /\ WasGranted(b)) => WasGranted(a)

\* C3: a task that calls _acquire_sys_pgcon after another task has
\* suspended waiting for the handle is never granted the handle before
\* that earlier waiter.
C3_NoBarging ==
    \A a, b \in SeqToSet(acqSeq) :
        (/\ a \in waited
         /\ AcqPos(a) < AcqPos(b)
         /\ WasGranted(b)) => WasGranted(a)

(***************************************************************************)
(* Claims about the management-listener restart                            *)
(***************************************************************************)
MgmtRunning ==
    {p \in PortIds : portBind[p].kind = "mgmt" /\ portState[p] = "Running"}

RestartInFlight(s) ==
    sess[s].pc \in {"r_stop", "r_start", "r_newstop", "r_rollback"}

\* The step in which call s of _restart_mgmt_port, whose replacement
\* failed to start, ends after its rollback start.
RollbackEnds(s) ==
    /\ sess[s].pc = "r_rollback"
    /\ sess[s].err = "start_error"
    /\ sess'[s].pc = "done"

C5_DoubleFailureRaisesStartError ==
    [][\A s \in Calls :
         (RollbackEnds(s) /\ sess'[s].rollback = "failed") =>
            sess'[s].raised = "start_error"]_vars

\* C6: whenever the server is up and no restart is in flight, exactly one
\* management listener is running and it is the one recorded in
\* _mgmt_port.
C6_ExactlyOneMgmtListener ==
    (ServerUp /\ \A s \in Calls : ~RestartInFlight(s)) =>
        MgmtRunning = {mgmt_port}

\* C7: the replacement's start is awaited only after the current
\* listener's stop has returned; when the start succeeds the old listener
\* is not running, the new one is running on the requested address, and
\* the recorded host/port/listener are those of the request.
C7_SuccessfulRestart ==
    [][\A s \in Calls :
         /\ (sess'[s].pc = "r_start" /\ sess[s].pc # "r_start") =>
               (sess[s].pc = "r_stop" /\ portState'[sess[s].orig] # "Running")
         /\ (sess[s].pc = "r_start" /\ sess'[s].pc = "done") =>
               /\ portState'[sess[s].orig] # "Running"
               /\ portState'[sess[s].newp] = "Running"
               /\ portBind'[sess[s].newp]
                     = MgmtBind(sess[s].nethost, sess[s].netport)
               /\ mgmt_port' = sess[s].newp
               /\ mgmt_host_addr' = sess[s].nethost
               /\ mgmt_port_no' = sess[s].netport]_vars

(***************************************************************************)
(* Claims about the protocol-listener registry                             *)
(***************************************************************************)
ConfRunning(k) ==
    {p \in PortIds : portBind[p] = ConfBind(k) /\ portState[p] = "Running"}

\* A listener that _stop_portconf took out of the registry and whose
\* stop() is still awaited.
BeingStopped(p) ==
    \E c \in Callers : sess[c].pc = "p_stop" /\ sess[c].target = p

\* C8: for every key at most one started listener is alive, and every
\* started listener is the one the registry holds for its key (a listener
\* whose stop is in flight excepted).
C8_OneLiveRegistrationPerKey ==
    \A k \in PortConfs :
        /\ Cardinality(ConfRunning(k)) <= 1
        /\ \A p \in ConfRunning(k) : sys_conf_ports[k] = p \/ BeingStopped(p)

\* C9: every key in the registry maps to a listener that is Running.
C9_RegisteredMeansRunning ==
    \A k \in PortConfs :
        sys_conf_ports[k] # 0 => portState[sys_conf_ports[k]] = "Running"

\* C10: when _start_portconf is called without suppress_errors and the
\* listener's start fails, the listener's stop is awaited for cleanup,
\* and when the call ends the start error is raised and the registry is
\* as it was.
C10_StartFailureReraisesStartError ==
    [][\A c \in Callers :
         /\ (/\ sess[c].pc = "p_start"
             /\ ~sess[c].suppress
             /\ sess'[c].pc # "p_start"
             /\ portState'[sess[c].newp] # "Running") =>
               sess'[c].pc = "p_cleanup"
         /\ (/\ sess[c].pc = "p_cleanup"
             /\ ~sess[c].suppress
             /\ sess'[c].pc # "p_cleanup") =>
               /\ sess'[c].raised = "start_error"
               /\ UNCHANGED sys_conf_ports]_vars

\* C11: during Server.start(), once the configured ports are being brought
\* up, no failure of a port's bring-up makes start() fail: start() goes on
\* with the remaining ports and ends with _serving set.
C11_BringUpNeverAborts ==
    [][startState = "ports" => startState' \in {"ports", "serving"}]_vars

\* Listener p is constructed in this step.
Constructed(p) == portState[p] = "Unalloc" /\ portState'[p] # "Unalloc"

\* Caller c makes a call in this step (start() makes one per configured
\* port, taking it out of the ports still to bring up).
CallStep(c) ==
    /\ sess[c].pc = "idle"
    /\ sess'[c].pc # "idle" \/ (c = StartCaller /\ bringLeft' # bringLeft)

\* C12: _start_portconf(k) for a registered key k constructs and starts no
\* listener, awaits no start or stop, and leaves the registry and every
\* listener as they are; it only logs that the port is already started.
C12_AlreadyRegisteredIsNoOp ==
    [][/\ \A p \in PortIds, k \in PortConfs :
            (Constructed(p) /\ portBind'[p] = ConfBind(k)) =>
                sys_conf_ports[k] = 0
       /\ \A k \in bringLeft \ bringLeft' :
            sys_conf_ports[k] # 0 =>
                /\ UNCHANGED <<portState, portBind, sys_conf_ports, sess>>
                /\ portlog' = Logged("already_started", k, StartCaller)
       /\ \A c \in Callers :
            (/\ CallStep(c)
             /\ portlog' # portlog
             /\ portlog'.msg = "already_started") =>
                /\ sys_conf_ports[portlog'.conf] # 0
                /\ UNCHANGED <<portState, portBind, sys_conf_ports>>
                /\ sess'[c].pc \in {"idle", "done"}
                /\ sess'[c].raised = "none"]_vars

\* C12 witness: a call for a registered key has just returned as a no-op;
\* the one listener ever constructed for the key is the registered one.
C12_Witness ==
    \E k \in PortConfs :
        /\ portlog.msg = "already_started"
        /\ portlog.conf = k
        /\ sys_conf_ports[k] # 0
        /\ portState[sys_conf_ports[k]] = "Running"
        /\ Cardinality({p \in PortIds : portBind[p] = ConfBind(k)}) = 1

\* Caller c begins to await the stop of a registered listener in this step.
EntersStop(c) == sess[c].pc = "idle" /\ sess'[c].pc = "p_stop"

\* C13: _stop_portconf(k) awaits a stop only for a key that is registered,
\* and unregisters it at once; so a second call right after the first finds
\* the key unregistered and is a no-op that logs a warning and leaves
\* listeners and registry as they are; neither call raises.
C13_StopTwiceIsOneStop ==
    [][\A c \in Callers :
         /\ EntersStop(c) =>
               /\ sys_conf_ports[sess'[c].conf] = sess'[c].target
               /\ sess'[c].target # 0
               /\ sys_conf_ports'[sess'[c].conf] = 0
         /\ (/\ portlog.msg \in {"stopped", "failed_to_stop"}
             /\ sys_conf_ports[portlog.conf] = 0
             /\ EntersStop(c)) => sess'[c].conf # portlog.conf
         /\ (/\ CallStep(c)
             /\ portlog' # portlog
             /\ portlog'.msg = "no_port_to_stop") =>
               /\ sys_conf_ports[portlog'.conf] = 0
               /\ UNCHANGED <<portState, portBind, sys_conf_ports>>
               /\ sess'[c].pc = "done"
               /\ sess'[c].raised = "none"
         /\ (sess[c].pc = "p_stop" /\ sess'[c].pc # "p_stop") =>
               sess'[c].raised = "none"]_vars

\* C13 witness: the first hook call stopped the listener of a key, and the
\* second hook call, for the same key, has returned as a no-op.
C13_Witness ==
    \E k \in PortConfs :
        /\ portlog = Logged("no_port_to_stop", k, 2)
        /\ sess[1].pc = "done" /\ sess[1].raised = "none"
        /\ sess[2].pc = "done" /\ sess[2].raised = "none"
        /\ sys_conf_ports[k] = 0
        /\ \E p \in PortIds :
              portBind[p] = ConfBind(k) /\ portState[p] = "Stopped"

\* C14: _stop_portconf(k) on a registered key takes the key out of the
\* registry before the listener's stop is awaited (the listener is as it
\* was when the await begins); when the stop has completed, failed or not,
\* the call returns without raising and does not put the key back.
C14_StopIsBestEffort ==
    [][\A c \in Callers :
         /\ EntersStop(c) =>
               /\ sys_conf_ports'[sess'[c].conf] = 0
               /\ UNCHANGED <<portState, portBind>>
         /\ (sess[c].pc = "p_stop" /\ sess'[c].pc # "p_stop") =>
               /\ sess'[c].pc \in {"idle", "done"}
               /\ sess'[c].raised = "none"
               /\ UNCHANGED sys_conf_ports
               /\ portlog'.msg \in {"stopped", "failed_to_stop"}
               /\ portlog'.conf = sess[c].conf]_vars

\* C14 witness: a stop hook failed; the call returned normally and the key
\* is not registered.
C14_Witness ==
    \E c \in Calls, k \in PortConfs :
        /\ portlog = Logged("failed_to_stop", k, c)
        /\ sess[c].pc = "done"
        /\ sess[c].raised = "none"
        /\ sys_conf_ports[k] = 0

\* Task t is inside an operation that acquires the system connection:
\* it waits for the handle, holds it, or is about to release it.
InProgress(t) == tpc[t] \in {"waiting", "woken", "holding", "iodone"}

\* No operation using the system connection is in progress and stop()
\* has not been called.
Quiescent ==
    /\ sys_pgcon_waiters = "queue"
    /\ tpc[StopTask] = "idle"
    /\ \A t \in AllTasks : ~InProgress(t)

\* C15: a bracket that ends, with its query returned or raised, puts the
\* handle back exactly once; whenever no operation is in progress (and
\* stop() has not run) the one handle is in the queue.
C15_ScopedAcquisition ==
    [][/\ \A t \in AllTasks :
            (tpc[t] = "iodone" /\ tpc'[t] \in {"done", "raised"}) =>
                Len(waitq'.items) = Len(waitq.items) + 1
       /\ Quiescent' => waitq'.items = <<"conn">>]_vars

\* C15 witness: a task's query raised, the task has ended with the error,
\* and with nothing in progress the handle is in the queue.
C15_Witness ==
    /\ Quiescent
    /\ \E t \in Tasks : tpc[t] = "raised" /\ WasGranted(t)
    /\ waitq.items = <<"conn">>

\* C16: once stop() has torn the connection down, a call of
\* _acquire_sys_pgcon raises at once: the caller neither suspends nor is
\* handed a handle, and the queue object is not touched.
C16_AcquireAfterTeardownRaises ==
    [][\A t \in Tasks :
         (/\ tpc[StopTask] = "done"
          /\ tpc[t] = "start"
          /\ tpc'[t] # "start") =>
            /\ tpc'[t] = "raised"
            /\ UNCHANGED <<waitq, granted, waited>>]_vars

\* C16 witness: stop() has torn the connection down and a task that was
\* never granted the handle has failed in _acquire_sys_pgcon.
C16_Witness ==
    /\ tpc[StopTask] = "done"
    /\ sys_pgcon_waiters = "None"
    /\ \E t \in Tasks :
          /\ tpc[t] = "raised"
          /\ ~WasGranted(t)
          /\ AcqPos(t) > AcqPos(StopTask)

(***************************************************************************)
(* Claims about cancellation of a waiting task                             *)
(***************************************************************************)
Cancelled(t) == tpc[t] \in {"cancelled", "cancelled_late"}

\* A wake-up is under way: a task whose getter was resolved has still to
\* run.
WakeupPending ==
    \E u \in SeqToSet(ready) : tpc[u] \in {"woken", "woken_cancel"}

\* What holds of a cancellation (the part of C17 that does not depend on
\* who is granted the handle): when a task suspended in
\* _acquire_sys_pgcon is cancelled, the
\* handle is neither lost nor duplicated (the queue's items and the
\* holders are as before, and handles plus holders is 1), the cancelled
\* task no longer waits, the other waiters keep their order, and when a
\* release had already woken the cancelled task while the handle is still
\* in the queue the next remaining waiter is woken in its place; a handle
\* in the queue with waiters pending always has a wake-up under way.
CancellationKeepsServing ==
    [][/\ \A t \in Tasks :
            (~Cancelled(t) /\ Cancelled(t)') =>
                /\ waitq'.items = waitq.items
                /\ Holders' = Holders
                /\ t \notin SeqToSet(waitq'.getters)
                /\ t \notin SeqToSet(ready')
                /\ \/ waitq'.getters = Remove(waitq.getters, t)
                   \/ /\ tpc[t] = "woken_cancel"
                      /\ waitq.items # <<>>
                      /\ waitq.getters # <<>>
                      /\ waitq'.getters = Tail(waitq.getters)
                      /\ tpc'[Head(waitq.getters)] = "woken"
                      /\ Head(waitq.getters) \in SeqToSet(ready')
       /\ sys_pgcon_waiters' = "queue" =>
            /\ Len(waitq'.items) + Cardinality(Holders') = 1
            /\ (waitq'.items # <<>> /\ waitq'.getters # <<>>) =>
                  WakeupPending']_vars

\* C17: once a waiting task has been cancelled, a grant made while other
\* tasks are still waiting goes to one of those waiters (a task whose
\* getter a release, or the cancelled task's hand-over, has resolved),
\* never to a caller that was not waiting; and handles plus holders is 1.
C17_GrantGoesToRemainingWaiter ==
    [][(/\ granted' # granted
        /\ \E t \in Tasks : Cancelled(t)
        /\ \E w \in Tasks : tpc[w] \in {"waiting", "woken"}) =>
            /\ tpc[granted'[Len(granted')]] = "woken"
            /\ Len(waitq'.items) + Cardinality(Holders') = 1]_vars

(***************************************************************************)
(* Claims about the configuration hooks                                    *)
(***************************************************************************)
\* The step is a call of a hook with a (setting_name, operation) pair the
\* hook has no code for: a before-hook of add/remove with a name other
\* than 'ports', a before-hook of set/reset with a name other than
\* 'listen_addresses' / 'listen_port', an after-hook of add/remove with a
\* name other than 'auth', or any after-hook of set/reset.
UnrecognizedHookCall(s) ==
    \E n \in SettingNames :
        \/ /\ n # "ports"
           /\ \E v \in HookValues(n) :
                 \/ \E c \in BOOLEAN : on_system_config_add(s, n, v, c)
                 \/ on_system_config_rem(s, n, v)
        \/ /\ n \notin {"listen_addresses", "listen_port"}
           /\ \/ \E v \in HookValues(n) : on_system_config_set(s, n, v)
              \/ on_system_config_reset(s, n)
        \/ /\ n # "auth"
           /\ \E v \in HookValues(n), auth \in SUBSET AuthEntries :
                 \/ after_system_config_add(s, n, v, auth)
                 \/ after_system_config_rem(s, n, v, auth)
        \/ \E v \in HookValues(n) : after_system_config_set(s, n, v)
        \/ after_system_config_reset(s, n)

\* C18: a hook called with a pair it has no code for returns without
\* raising and leaves every listener, the registry, the management
\* listener and its recorded address, and the cached auth list unchanged.
C18_UnrecognizedPairsAreNoOps ==
    [][\A s \in Calls :
         UnrecognizedHookCall(s) =>
            /\ UNCHANGED <<portState, portBind, sys_conf_ports, mgmt_port,
                           mgmt_host_addr, mgmt_port_no, sys_auth, portlog>>
            /\ sess'[s].pc = "passed"
            /\ sess'[s].raised = "none"
            /\ \A c \in Callers \ {s} : sess'[c] = sess[c]]_vars

\* C18 witness: with the management listener running and auth entries
\* cached, a hook
\* call has passed through without doing anything.
C18_Witness ==
    /\ \E s \in Calls : sess[s].pc = "passed"
    /\ sys_auth # <<>>
    /\ portState[mgmt_port] = "Running"

\* The step ends call s of a set/reset before-hook with the replacement
\* recorded: the restart succeeded.
RestartSucceeds(s) ==
    /\ sess[s].pc = "r_start"
    /\ mgmt_port' = sess[s].newp
    /\ portState'[sess[s].newp] = "Running"

\* The step ends call s of the add before-hook with the listener started
\* and registered.
PortStartSucceeds(s) ==
    /\ sess[s].pc = "p_start"
    /\ sys_conf_ports'[sess[s].conf] = sess[s].newp
    /\ portState'[sess[s].newp] = "Running"

\* C19: a before-hook whose management restart or protocol-listener start
\* fails raises to its caller: a set/reset hook of listen_addresses /
\* listen_port ends without an error only when the restart succeeded, an
\* add hook of ports that awaited the listener's start ends without an
\* error only when the start succeeded, and an add hook that cannot
\* construct the listener (unknown protocol, constructor failure) raises
\* at once.
C19_BeforeHookFailuresPropagate ==
    [][\A s \in Calls :
         /\ (RestartInFlight(s) /\ ~RestartInFlight(s)') =>
               /\ sess'[s].pc = "done"
               /\ sess'[s].raised = "none" <=> RestartSucceeds(s)
         /\ (sess[s].pc \in {"p_start", "p_cleanup"}
               /\ sess'[s].pc \notin {"p_start", "p_cleanup"}) =>
               /\ sess'[s].pc = "done"
               /\ sess'[s].raised = "none" <=> PortStartSucceeds(s)
         /\ \A k \in PortConfs, c \in BOOLEAN :
               (/\ on_system_config_add(s, "ports", k, c)
                /\ sys_conf_ports[k] = 0
                /\ k \notin KnownProtocols \/ ~c) =>
                    /\ sess'[s].pc = "done"
                    /\ sess'[s].raised # "none"]_vars

\* C19 witness: an add hook of ports has raised the error of its
\* listener's start, and the key is not registered.
C19_Witness ==
    \E s \in Calls :
        /\ sess[s].pc = "done"
        /\ sess[s].raised = "start_error"
        /\ sess[s].rollback = "none"
        /\ \E p \in PortIds :
              /\ portBind[p].kind = "conf"
              /\ portState[p] = "Stopped"
              /\ sys_conf_ports[portBind[p].conf] = 0

\* The registrations of every key but v are the same before and after the
\* step.
OtherKeysUnchanged(v) ==
    \A k \in PortConfs \ {v} : sys_conf_ports'[k] = sys_conf_ports[k]

\* The listeners other than p keep their state in the step.
OtherPortsUntouched(p) ==
    \A q \in PortIds \ {p} : portState'[q] = portState[q]

\* C20: the ports add hook called with v constructs a listener bound to v,
\* awaits the start of that listener only and, once it has started,
\* registers it under v; the ports remove hook called with a registered v
\* takes the listener registered under v out of the registry and awaits
\* the stop of that listener only; no step of either hook changes the
\* registration of another key.
C20_PortsHooksDispatchOnKey ==
    [][\A s \in Calls :
         /\ \A v \in PortConfs, c \in BOOLEAN :
               on_system_config_add(s, "ports", v, c) =>
                  /\ sys_conf_ports' = sys_conf_ports
                  /\ sess'[s].pc = "p_start" =>
                        /\ sess'[s].conf = v
                        /\ portBind'[sess'[s].newp].conf = v
                        /\ portState[sess'[s].newp] = "Unalloc"
                        /\ OtherPortsUntouched(sess'[s].newp)
         /\ (sess[s].pc \in {"p_start", "p_cleanup"}
               /\ sess'[s] # sess[s]) =>
                  /\ OtherKeysUnchanged(sess[s].conf)
                  /\ OtherPortsUntouched(sess[s].newp)
                  /\ PortStartSucceeds(s) <=>
                        (sess[s].pc = "p_start"
                           /\ portState'[sess[s].newp] = "Running")
                  /\ sys_conf_ports'[sess[s].conf]
                        \in {sys_conf_ports[sess[s].conf], sess[s].newp}
         /\ \A v \in PortConfs :
               on_system_config_rem(s, "ports", v) =>
                  /\ sys_conf_ports'[v] = 0
                  /\ OtherKeysUnchanged(v)
                  /\ portState' = portState
                  /\ sys_conf_ports[v] # 0 =>
                        /\ sess'[s].pc = "p_stop"
                        /\ sess'[s].target = sys_conf_ports[v]
                        /\ portBind[sess'[s].target].conf = v
         /\ (sess[s].pc = "p_stop" /\ sess'[s] # sess[s]) =>
                  /\ sys_conf_ports' = sys_conf_ports
                  /\ OtherPortsUntouched(sess[s].target)
                  /\ portState'[sess[s].target]
                        = PortStopResult(portState[sess[s].target], "ok")
                     \/ portState'[sess[s].target]
                        = portState[sess[s].target]]_vars

\* C20 witness: a remove hook has stopped and unregistered the listener of
\* one key while the listener registered under another key is still
\* registered and running.
C20_Witness ==
    \E s \in Calls, v \in PortConfs :
        /\ sess[s].pc = "done"
        /\ portlog = Logged("stopped", v, s)
        /\ sys_conf_ports[v] = 0
        /\ \E p \in PortIds : portBind[p].conf = v /\ portState[p] = "Stopped"
        /\ \E k \in PortConfs \ {v} :
              /\ sys_conf_ports[k] # 0
              /\ portState[sys_conf_ports[k]] = "Running"

(***************************************************************************)
(* Claims about the auth cache and the notification handlers               *)
(***************************************************************************)

\* The cached list is in non-decreasing priority order.
ByPriority(authlist) ==
    \A i, j \in 1..Len(authlist) :
        i < j => authlist[i].priority <= authlist[j].priority

\* C21: when the after-hook of an add or a remove of 'auth' returns, the
\* cached auth list holds exactly the auth entries the system
\* configuration holds, each once, in non-decreasing priority order.
C21_AuthCacheRefreshed ==
    [][\A s \in Calls, auth \in SUBSET AuthObjects, v \in AuthEntries :
          (\/ after_system_config_add(s, "auth", v, auth)
           \/ after_system_config_rem(s, "auth", v, auth)) =>
              /\ SeqToSet(sys_auth') = auth
              /\ Len(sys_auth') = Cardinality(auth)
              /\ ByPriority(sys_auth')]_vars

\* C21 witness: a hook call has refreshed the cache to three entries, two
\* of them of the same priority.
C21_Witness ==
    /\ \E s \in Calls : sess[s].pc = "done"
    /\ Len(sys_auth) = 3
    /\ sys_auth[1].priority < sys_auth[2].priority
    /\ sys_auth[2].priority = sys_auth[3].priority

\* The step is a notification handler creating task t.
HandlerCreates(t) ==
    \/ on_role_change(t)
    \/ on_global_schema_change(t)
    \/ \E d \in DbNames : on_remote_ddl(t, d)

\* Task t is at a query of the work its handler scheduled.
AtQuery(t) == tpc[t] \in {"holding", "iodone", "db_read"}

\* C22 as stated: whichever handler created it, a task that is at a query
\* of its work was granted the system connection by _acquire_sys_pgcon.
C22_AllWorkThroughArbitrator ==
    \A t \in Tasks : AtQuery(t) => WasGranted(t)

\* C22 amended: a handler only creates its task (the task is left at its
\* first step and the queue of the system connection is untouched); the
\* work scheduled by _on_role_change and _on_global_schema_change runs its
\* query only after _acquire_sys_pgcon granted it the handle and gives the
\* handle back to the queue when it ends, whether the query returned or
\* raised; the work scheduled by _on_remote_ddl uses a connection of the
\* pool and never calls _acquire_sys_pgcon.
C22_HandlersScheduleOnly ==
    /\ [](\A t \in Tasks :
            /\ (top[t] \in {"_fetch_roles", "introspect_global_schema"}
                  /\ AtQuery(t)) =>
                     /\ WasGranted(t)
                     /\ t \in Holders
                     /\ waitq.items = <<>>
            /\ intro[t].db # "none" =>
                     /\ t \notin SeqToSet(acqSeq)
                     /\ t \notin Holders)
    /\ [][\A t \in Tasks :
            /\ HandlerCreates(t) =>
                  /\ tpc'[t] \in {"start", "db_start"}
                  /\ waitq' = waitq
                  /\ acqSeq' = acqSeq
                  /\ \A u \in AllTasks \ {t} : tpc'[u] = tpc[u]
            /\ (top[t] \in {"_fetch_roles", "introspect_global_schema"}
                  /\ tpc[t] = "iodone" /\ tpc'[t] # "iodone") =>
                  /\ tpc'[t] = (IF tres[t] = "ok" THEN "done" ELSE "raised")
                  /\ t \notin Holders'
                  /\ waitq'.items = <<sys_pgcon>>]_vars

\* C22 witness: a task created by _on_remote_ddl is between its queries
\* while a task created by _on_role_change holds the system connection.
C22_Witness ==
    \E t, u \in Tasks :
        /\ top[t] = "introspect_db" /\ tpc[t] = "db_read"
        /\ top[u] = "_fetch_roles" /\ tpc[u] = "holding"
        /\ \E w \in Tasks : tpc[w] = "raised" /\ WasGranted(w)

\* The step ends the bracket of the _fetch_roles task t.
FetchRolesEnds(t) ==
    /\ top[t] = "_fetch_roles"
    /\ tpc[t] = "iodone"
    /\ tpc'[t] # "iodone"

\* C23 as stated: the refresh created by each role-change notification
\* replaces the role table by what it fetched, so that the table is the
\* one of the refresh that held the connection last.
C23_EveryRefreshReplaces ==
    [][\A t \in Tasks : FetchRolesEnds(t) => roles' = t]_vars

\* C23 amended: the role table is only ever replaced as a whole, by a
\* _fetch_roles bracket whose query returned, in the step in which that
\* bracket still holds the system connection and then releases it; a
\* refresh whose query raised leaves the table as it was.  The table is
\* therefore the fetch of the refresh that last held the connection with
\* a query that returned.
C23_RolesReplacedWhileHolding ==
    [][/\ \A t \in Tasks :
             FetchRolesEnds(t) =>
                /\ t \in Holders
                /\ roles' = (IF tres[t] = "ok" THEN t ELSE roles)
       /\ roles' # roles =>
             \E t \in AllTasks :
                /\ t \in Holders
                /\ top[t] = "_fetch_roles"
                /\ tpc[t] = "iodone" /\ tres[t] = "ok"
                /\ t \in Tasks =>
                      granted # <<>> /\ granted[Len(granted)] = t
                /\ roles' = t]_vars

\* C23 witness: two refreshes waited for the connection at the same time;
\* the table is the fetch of the one that held it first, the query of the
\* one that held it after that raised.
C23_Witness ==
    \E t, u \in Tasks :
        /\ {t, u} \subseteq waited
        /\ roles = t
        /\ tpc[t] = "done" /\ tpc[u] = "raised"
        /\ \E i, j \in 1..Len(granted) :
              i < j /\ granted[i] = t /\ granted[j] = u

(***************************************************************************)
(* Claims about the CONFIGURE statement compiler                           *)
(***************************************************************************)

\* The shape holds, at its top or inside a nested insert, an object-typed
\* element that is not a nested insert.
RECURSIVE HasObjectReference(_)
HasObjectReference(shape) ==
    \E i \in 1..Len(shape) :
        \/ shape[i].kind = "select"
        \/ shape[i].kind = "insert" /\ HasObjectReference(shape[i].shape)

\* C24: compiling a CONFIGURE INSTANCE INSERT whose shape holds, at its
\* top or inside a nested insert, an object-typed element that is not a
\* nested insert fails with an error.
C24_ObjectReferencesRejected ==
    (/\ ccount > 0
     /\ cstmt.op = "ConfigInsert"
     /\ cstmt.scope = "INSTANCE"
     /\ HasObjectReference(cstmt.shape)) => cres.err # "none"

\* What _validate_op gives for the statement held.
Resolution == ValidateOp(cstmt, ccat.links, ccat.order)

\* An INSERT at a scope other than INSTANCE was compiled.
InsertOutsideInstance ==
    /\ ccount > 0
    /\ cstmt.op = "ConfigInsert"
    /\ cstmt.scope # "INSTANCE"

\* C25 as stated: every INSERT at a scope other than INSTANCE fails with
\* UnsupportedFeatureError, whatever its name, module qualifier or flags.
C25_InsertOutsideInstanceUnsupported ==
    InsertOutsideInstance => cres.err = "UnsupportedFeatureError"

\* C25 amended: every INSERT at a scope other than INSTANCE fails and
\* returns no node: with QueryError when the name carries a module other
\* than cfg, with ConfigurationError when the name does not resolve or
\* resolves to a system-level parameter, and with UnsupportedFeatureError
\* in every other case.
C25_InsertOutsideInstanceFails ==
    InsertOutsideInstance =>
        /\ cres.node = NoNode
        /\ cres.err \in {"QueryError", "ConfigurationError",
                         "UnsupportedFeatureError"}
        /\ cres.err = "QueryError" <=> cstmt.module \notin {"", "cfg"}
        /\ cres.err = "UnsupportedFeatureError" <=> Resolution.err = "none"
        /\ cres.err = "ConfigurationError" <=>
              Resolution.err = "ConfigurationError"

\* C25 witness: an INSERT at SESSION scope of a type that resolves to a
\* parameter that is not system-level was refused as unsupported.
C25_Witness ==
    /\ InsertOutsideInstance
    /\ cstmt.scope = "SESSION"
    /\ cstmt.name = "Trust"
    /\ cres.err = "UnsupportedFeatureError"

\* The name of the statement held is neither a pointer of the root
\* configuration object nor a configuration object type of the catalog.
UnknownName ==
    /\ \A p \in HostProps \cup ccat.links :
           p.source = HostType => p.name # cstmt.name
    /\ cstmt.name \notin ObjectTypes

\* A SET or RESET of an unknown name was compiled.
UnknownSetOrReset ==
    /\ ccount > 0
    /\ cstmt.op \in {"ConfigSet", "ConfigReset"}
    /\ UnknownName

\* C26 as stated: SET or RESET of an unknown name fails with
\* ConfigurationError and returns no node.
C26_UnknownNameIsConfigurationError ==
    UnknownSetOrReset =>
        cres.err = "ConfigurationError" /\ cres.node = NoNode

\* C26 amended: SET or RESET of an unknown name fails and returns no node,
\* with QueryError when the name carries a module other than cfg and with
\* ConfigurationError otherwise; compiling changes no server state.
C26_UnknownNameRejected ==
    /\ [](UnknownSetOrReset =>
            /\ cres.node = NoNode
            /\ cres.err = (IF cstmt.module \in {"", "cfg"}
                           THEN "ConfigurationError" ELSE "QueryError"))
    /\ [][ccount' # ccount => UNCHANGED srvVars]_vars

\* C26 witness: a RESET of an unknown name without module qualifier was
\* refused with ConfigurationError.
C26_Witness ==
    /\ UnknownSetOrReset
    /\ cstmt.op = "ConfigReset"
    /\ cstmt.module = ""
    /\ cres.err = "ConfigurationError"

\* The statement held names a primitive-typed parameter: a property of the
\* root configuration object.
PrimitiveParam == \E p \in HostProps : p.name = cstmt.name

\* The primitive-typed parameter named is annotated system-level.
SystemParam == \E p \in HostProps : p.name = cstmt.name /\ p.system = "true"

\* A RESET of a primitive-typed parameter with a filter clause was compiled.
PrimitiveResetWithFilter ==
    /\ ccount > 0
    /\ cstmt.op = "ConfigReset"
    /\ PrimitiveParam
    /\ cstmt.where # "None"

\* The selector a ConfigReset node carries: none for a primitive-typed
\* parameter, a compiled one over an object type with the statement's
\* filter otherwise.
SelectorMatchesTarget ==
    (ccount > 0 /\ cres.node.kind = "ConfigReset") =>
        IF PrimitiveParam
        THEN cres.node.selector = NoSelector
        ELSE /\ cres.node.selector # NoSelector
             /\ cres.node.selector.over \in ObjectTypes
             /\ cres.node.selector.where = cstmt.where

\* C27 as stated: RESET of a primitive-typed parameter with a filter clause
\* fails with QueryError; a ConfigReset node has a selector exactly when
\* its target is object-typed.
C27_PrimitiveResetFilterIsQueryError ==
    /\ PrimitiveResetWithFilter => cres.err = "QueryError"
    /\ SelectorMatchesTarget

\* C27 amended: RESET of a primitive-typed parameter with a filter clause
\* fails, with ConfigurationError when the parameter is system-level and
\* the scope is not INSTANCE and with QueryError otherwise; a ConfigReset
\* node has a selector exactly when its target is object-typed.
C27_PrimitiveResetFilterFails ==
    /\ PrimitiveResetWithFilter =>
          /\ cres.node = NoNode
          /\ cres.err = (IF /\ cstmt.module \in {"", "cfg"}
                            /\ SystemParam
                            /\ cstmt.scope # "INSTANCE"
                         THEN "ConfigurationError" ELSE "QueryError")
    /\ SelectorMatchesTarget

\* C27 witness: a filtered RESET of a session-level primitive parameter was
\* refused with QueryError by the filter test itself.
C27_Witness ==
    /\ PrimitiveResetWithFilter
    /\ cstmt.module = ""
    /\ ~SystemParam
    /\ cres.err = "QueryError"

\* The links of the catalog held that target type T from a source under
\* the root configuration object.
QualifyingLinks(T) ==
    {l \in ccat.links : l.target = T /\ IsSubclass(l.source, HostType)}

\* The ancestor chain of the type the statement names, the type first.
Mro == <<cstmt.name>> \o Ancestors(cstmt.name)

\* The positions of the chain whose type has a qualifying link.
QualifyingPositions == {i \in 1..Len(Mro) : QualifyingLinks(Mro[i]) # {}}

\* An object-typed operation was compiled at INSTANCE scope: an INSERT or
\* a RESET that names a configuration object type.
ObjectOperation ==
    /\ ccount > 0
    /\ cstmt.op \in {"ConfigInsert", "ConfigReset"}
    /\ cstmt.module \in {"", "cfg"}
    /\ cstmt.scope = "INSTANCE"
    /\ cstmt.name \in ObjectTypes
    /\ \A p \in HostProps \cup ccat.links :
          p.source = HostType => p.name # cstmt.name

\* C28: an object-typed operation on a type with a qualifying link on some
\* ancestor resolves to a qualifying link of the first such ancestor, and
\* it fails with ConfigurationError only when no ancestor has one.
C28_QualifyingLinkResolves ==
    ObjectOperation =>
        IF QualifyingPositions # {}
        THEN LET first == CHOOSE i \in QualifyingPositions :
                              \A j \in QualifyingPositions : i <= j
             IN /\ cres.err = "none"
                /\ cres.node.name \in
                       {l.name : l \in QualifyingLinks(Mro[first])}
        ELSE cres.err = "ConfigurationError"

\* The number of '_tname' elements of a shape.
TnameCount(shape) ==
    Cardinality({i \in 1..Len(shape) : shape[i].name = "_tname"})

\* The shape of an insert subtree holds one '_tname', and so does the
\* shape of every insert nested in it.
RECURSIVE OneTnameEach(_)
OneTnameEach(shape) ==
    /\ TnameCount(shape) = 1
    /\ \A i \in 1..Len(shape) :
          shape[i].kind = "insert" => OneTnameEach(shape[i].shape)

\* A CONFIGURE INSERT was compiled to a node.
InsertCompiled ==
    /\ ccount > 0
    /\ cstmt.op = "ConfigInsert"
    /\ cres.err = "none"

\* C30: after a CONFIGURE INSERT statement tree is compiled, once or again,
\* every nested insert subtree at every depth holds exactly one '_tname'
\* shape element.
C30_ExactlyOneTname ==
    InsertCompiled =>
        \A i \in 1..Len(cstmt.shape) :
            cstmt.shape[i].kind = "insert" =>
                OneTnameEach(cstmt.shape[i].shape)

\* The pointer the statement held targets: the pointer of the root
\* configuration object a SET or RESET names, else the link the walk over
\* the named type's ancestors picks when its source is under the root.
TargetPtr ==
    LET ptr == IF cstmt.op \in {"ConfigSet", "ConfigReset"}
               THEN MaybeGetPtr(ccat.links, cstmt.name) ELSE NoPtr
        cand == IF cstmt.name \in ObjectTypes /\ cstmt.op # "ConfigSet"
                THEN PtrCandidate(ccat.links, ccat.order,
                                  <<cstmt.name>> \o Ancestors(cstmt.name))
                ELSE NoPtr
    IN IF ptr # NoPtr THEN ptr
       ELSE IF cand # NoPtr /\ IsSubclass(cand.source, HostType) THEN cand
       ELSE NoPtr

\* A statement on a system-level parameter, with an accepted module
\* qualifier, was compiled at a scope other than INSTANCE.
SystemOutsideInstance ==
    /\ ccount > 0
    /\ cstmt.module \in {"", "cfg"}
    /\ cstmt.scope # "INSTANCE"
    /\ TargetPtr # NoPtr
    /\ TargetPtr.system = "true"

\* A statement whose name carries a module qualifier other than cfg was
\* compiled.
ForeignModule == ccount > 0 /\ cstmt.module \notin {"", "cfg"}

\* C31: a system-level parameter targeted by SET, RESET or INSERT outside
\* INSTANCE scope is rejected with ConfigurationError, a name qualified
\* with a module other than cfg is rejected with QueryError whatever the
\* catalog holds, and in both cases no IR node is produced.
C31_SystemScopeAndModuleRejected ==
    /\ SystemOutsideInstance =>
          cres.err = "ConfigurationError" /\ cres.node = NoNode
    /\ ForeignModule => cres.err = "QueryError" /\ cres.node = NoNode

\* C31 witness: an INSERT of an object type reached through a system-level
\* link was refused with ConfigurationError at a scope other than INSTANCE.
C31_Witness ==
    /\ SystemOutsideInstance
    /\ cstmt.op = "ConfigInsert"
    /\ cres.err = "ConfigurationError"

\* The arbitrator under fair scheduling: the event loop runs every
\* runnable coroutine (acquire, resumption of a woken getter, release),
\* and the query a holder awaits completes, so every holder releases.
\* Notifications and the call of stop() are left to the environment.
FairArb ==
    /\ WF_vars(\E t \in AllTasks : AcquireSysPgcon(t))
    /\ WF_vars(\E t \in AllTasks : GetResume(t))
    /\ WF_vars(\E t \in Tasks : ReleaseSysPgcon(t))
    /\ WF_vars(InitRelease)
    /\ WF_vars(\E t \in AllTasks, res \in {"ok", "err"} : IOComplete(t, res))

SpecArbFair == Init /\ [][NextArb]_vars /\ FairArb

\* Task t is inside _acquire_sys_pgcon: created and about to call it,
\* suspended in Queue.get(), or woken and not yet resumed.
InAcquire(t) == tpc[t] \in {"start", "waiting", "woken"}

\* stop() has taken the handle, dropped the queue and the connection.
TornDown == tpc[StopTask] = "done"

\* C32: no task is left suspended in _acquire_sys_pgcon once stop() has
\* taken the handle and torn the connection down; from there no release
\* can follow, so such a task is neither granted the handle nor failed.
C32_NoWaiterStranded ==
    \A t \in Tasks : ~(TornDown /\ tpc[t] = "waiting")

\* C32 in its temporal form: every task inside _acquire_sys_pgcon is
\* eventually granted the handle or fails.
C32_EveryAcquireEnds ==
    \A t \in Tasks : InAcquire(t) ~> ~InAcquire(t)

\* The two SET statements of the claim: listen_addresses to an address
\* other than the one init() recorded, listen_port to a number other than
\* the one init() recorded.
NewAddress == "0.0.0.0"
NewPortNo == 10702

\* The before-hook of CONFIGURE SET called with these two settings only,
\* any number of times and in any order, with the restarts they begin.
NextSetBoth ==
    \/ NextBoot
    \/ \E ok \in BOOLEAN : ServerStartMgmt(ok)
    \/ \E s \in Calls : on_system_config_set(s, "listen_addresses", NewAddress)
    \/ \E s \in Calls : on_system_config_set(s, "listen_port", NewPortNo)
    \/ \E s \in Calls, r \in StopOutcomes, c \in BOOLEAN :
          restart_stop_returns(s, r, c)
    \/ \E s \in Calls, ok \in BOOLEAN : restart_start_returns(s, ok)
    \/ \E s \in Calls, r \in StopOutcomes : restart_newstop_returns(s, r)
    \/ \E s \in Calls, ok \in BOOLEAN : restart_rollback_returns(s, ok)

SpecSetBoth == Init /\ [][NextSetBoth]_vars

\* Every hook call was made and returned without raising.
AllSetsProcessed ==
    \A s \in Calls : sess[s].pc = "done" /\ sess[s].raised = "none"

\* The management listeners constructed so far.  A call that returned
\* without raising constructed one, for the address and port it was
\* called with.
MgmtListeners == {p \in PortIds : portBind[p].kind = "mgmt"}

\* Among the calls was a SET of listen_addresses: only it brings in the
\* new address.  Likewise for listen_port.
AddressSetProcessed == \E p \in MgmtListeners : portBind[p].host = NewAddress
PortSetProcessed == \E p \in MgmtListeners : portBind[p].port = NewPortNo

\* C33: once SET listen_addresses and SET listen_port have both been
\* processed successfully, in whatever order and however their hooks
\* interleaved, the recorded host and port are the two new values and the
\* management listener running is the recorded one, bound to them.
C33_NoLostUpdate ==
    (AllSetsProcessed /\ AddressSetProcessed /\ PortSetProcessed) =>
        /\ mgmt_host_addr = NewAddress
        /\ mgmt_port_no = NewPortNo
        /\ mgmt_port # 0
        /\ portBind[mgmt_port] = MgmtBind(NewAddress, NewPortNo)
        /\ MgmtRunning = {mgmt_port}

\* The re-introspections of database d that have not ended yet.
IntrospectingDb(d) ==
    {t \in Tasks : intro[t].db = d /\ tpc[t] \in {"db_start", "db_read"}}

\* The re-introspection of d triggered last (by the latest schema change
\* of d) has registered its snapshot, and none is still running.
ReintrospectionsCompleted(d) ==
    /\ schema_db[d] \in Tasks
    /\ tpc[schema_db[d]] = "done"
    /\ IntrospectingDb(d) = {}

\* C34: once every re-introspection of a database has completed, the
\* index holds for it the snapshot read by the one triggered last; a
\* slower one triggered earlier has not put an older snapshot over it.
C34_CacheHoldsLatestSnapshot ==
    \A d \in DbNames :
        ReintrospectionsCompleted(d) =>
            dbindex[d] = intro[schema_db[d]].snap

\* The entries of the cached list that apply to a user.
Applicable(user) ==
    {i \in 1..Len(sys_auth) :
        user \in sys_auth[i].user \/ "*" \in sys_auth[i].user}

\* C35: a call of get_auth_method(user) returns the default SCRAM method
\* when the cached list is empty, None when the list holds entries and
\* none applies to the user, and otherwise the method of the first
\* applicable entry of the list, which no applicable entry precedes in
\* priority.
C35_FirstApplicableMethod ==
    [][auth_reply' # auth_reply =>
         LET user == auth_reply'.user
             method == auth_reply'.method
         IN IF sys_auth = <<>> THEN method = "SCRAM"
            ELSE IF Applicable(user) = {} THEN method = "None"
            ELSE \E i \in Applicable(user) :
                    /\ method = sys_auth[i].method
                    /\ \A j \in Applicable(user) :
                          i <= j /\ sys_auth[i].priority <= sys_auth[j].priority
      ]_vars

\* C35 witness: bob connected while the cached list held alice's entry
\* before his own, and was given the method of his entry.
C35_Witness ==
    /\ Len(sys_auth) = 2
    /\ sys_auth[1].user = {"alice"}
    /\ sys_auth[2].user = {"bob"}
    /\ auth_reply = [user |-> "bob", method |-> sys_auth[2].method]

====
